---- MODULE Spec2Model ----
(***************************************************************************)
(* S-Params: a desktop viewer of Touchstone S-parameter files.             *)
(*                                                                         *)
(* The module models                                                       *)
(*   - file_manager.py : TouchstoneFile (accessor and calculators) and     *)
(*                       FileManager (slot table),                         *)
(*   - plot_engine.py  : PlotEngine (render dispatch),                     *)
(*   - the windows that drive them.                                        *)
(*                                                                         *)
(* Conventions.  A Python string is a sequence of one-character strings,   *)
(* so that indexing (param_name[1]) and formatting (f"S{i+1}{j+1}") are    *)
(* what the code does.  A complex sample is a pair <<re, im>> of integers  *)
(* in units of 1/Scale.  A numpy array is a sequence; Python's 0-based     *)
(* index n is position n + 1.  A Python call returns a record whose field  *)
(* ok is FALSE when the call raised, err naming the exception.             *)
(***************************************************************************)
EXTENDS Integers, Sequences, FiniteSets, TLC

(***************************************************************************)
(* Bounds of the model.                                                    *)
(***************************************************************************)
\* Largest port count of a network read in the accessor specification.
MaxPorts == 10
\* Largest number of frequency points of a network.
MaxPoints == 2

\* Fixed-point unit of the real and imaginary parts of a sample (1/Scale).
Scale == 10000

(***************************************************************************)
(* Python and numpy primitives.                                            *)
(***************************************************************************)
Digits == <<"0", "1", "2", "3", "4", "5", "6", "7", "8", "9">>

\* str(n) of a natural number, as used by an f-string replacement field.
RECURSIVE Str(_)
Str(n) == IF n < 10 THEN <<Digits[n + 1]>>
          ELSE Str(n \div 10) \o <<Digits[(n % 10) + 1]>>

IsDigit(c) == \E d \in 1..10 : Digits[d] = c

\* int(c) of a one-character string; the caller checks IsDigit (int raises
\* ValueError otherwise).
int(c) == (CHOOSE d \in 1..10 : Digits[d] = c) - 1

\* numpy's resolution of an integer index into an axis of length n:
\* 0..n-1 as is, -n..-1 from the end, anything else is an IndexError (-1 here).
NpIndex(idx, n) == IF idx >= 0 /\ idx < n THEN idx
                   ELSE IF idx < 0 /\ idx >= -n THEN idx + n
                   ELSE -1

\* Ok/raised results of a call.  Every result has the same fields.
Raise(e) == [ok |-> FALSE, err |-> e, freq |-> <<>>, data |-> <<>>, data2 |-> <<>>]
Return(f, d, d2) == [ok |-> TRUE, err |-> "", freq |-> f, data |-> d, data2 |-> d2]

(***************************************************************************)
(* The external Touchstone parser, rf.Network(path).  A path is a record   *)
(* naming what is on disk under it: kind "touchstone" with the port count  *)
(* and the number of frequency points of the file, "garbage" for a file    *)
(* the parser rejects, "missing" for no file.                              *)
(***************************************************************************)
GoodPath(p, n) == [kind |-> "touchstone", ports |-> p, points |-> n]
GarbagePath == [kind |-> "garbage", ports |-> 0, points |-> 0]
MissingPath == [kind |-> "missing", ports |-> 0, points |-> 0]

\* A two-port file that holds the given series of samples: S11 and S22 are
\* the series, S12 and S21 the series backwards.
MeasuredPath(samples) ==
    [kind |-> "touchstone", ports |-> 2, points |-> Len(samples),
     samples |-> samples]

\* The sample the file holds at frequency index k (1-based), output port i,
\* input port j (1-based).  A measured file holds its series; in any other
\* file the samples are pairwise different over the cells and multiples of
\* 0.003+0.004j, so that the magnitude is exact.
Cell(path, k, i, j) ==
    IF "samples" \in DOMAIN path
    THEN path.samples[IF i = j THEN k ELSE path.points + 1 - k]
    ELSE LET c == (k - 1) * path.ports * path.ports + (i - 1) * path.ports + (j - 1)
         IN  <<30 * c, 40 * c>>

\* rf.Network(path): f in Hz (100 MHz apart), nports, s of shape (N, P, P).
Network(path) ==
    [nports |-> path.ports,
     f      |-> [k \in 1..path.points |-> k * 100000000],
     s      |-> [k \in 1..path.points |->
                   [i \in 1..path.ports |->
                     [j \in 1..path.ports |-> Cell(path, k, i, j)]]]]

ParserAccepts(path) == path.kind = "touchstone"

(***************************************************************************)
(* TouchstoneFile                                                          *)
(***************************************************************************)
\* The inner loop of load_file: S{i+1}{j+1} for j in range(n), i fixed.
RECURSIVE s_params_row(_, _)
s_params_row(i, n) ==
    IF n = 0 THEN <<>>
    ELSE Append(s_params_row(i, n - 1), <<"S">> \o Str(i + 1) \o Str(n))

\* The outer loop of load_file: the rows of i in range(n), one after another.
RECURSIVE s_params_loop(_, _)
s_params_loop(nports, n) ==
    IF n = 0 THEN <<>>
    ELSE s_params_loop(nports, n - 1) \o s_params_row(n - 1, nports)

\* The inner loop with the indices exchanged: S{i+1}{j+1} for i in range(n).
RECURSIVE s_params_row_transposed(_, _)
s_params_row_transposed(j, n) ==
    IF n = 0 THEN <<>>
    ELSE Append(s_params_row_transposed(j, n - 1),
                <<"S">> \o Str(n) \o Str(j + 1))

\* The loops nested the other way round: j is the outer loop.
RECURSIVE s_params_loop_transposed(_, _)
s_params_loop_transposed(nports, n) ==
    IF n = 0 THEN <<>>
    ELSE s_params_loop_transposed(nports, n - 1)
             \o s_params_row_transposed(n - 1, nports)

\* The list with j as the outer loop.
build_s_params_transposed(nports) == s_params_loop_transposed(nports, nports)

\* The list load_file builds for a network of nports ports.
build_s_params(nports) == s_params_loop(nports, nports)

\* TouchstoneFile(filepath): __init__ and load_file.  A parser error is
\* re-raised as ValueError and no object is constructed.
load_file(filepath) ==
    IF ~ParserAccepts(filepath)
    THEN [ok |-> FALSE, err |-> "ValueError", obj |-> <<>>]
    ELSE LET network == Network(filepath)
         IN  [ok  |-> TRUE, err |-> "",
              obj |-> [filepath  |-> filepath,
                       network   |-> network,
                       frequency |-> network.f,
                       s_params  |-> build_s_params(network.nports)]]

InList(x, list) == \E n \in 1..Len(list) : list[n] = x

\* network.s[:, row, col] for Python indices row, col already resolved.
Column(network, row, col) ==
    [k \in 1..Len(network.s) |-> network.s[k][row + 1][col + 1]]

\* get_s_parameter without the membership test: numpy's own index check is
\* all that is left, and it accepts the index -1 that the digit 0 gives.
get_s_parameter_unchecked(tf, param_name) ==
    IF Len(param_name) < 3 THEN Raise("IndexError")
    ELSE IF ~IsDigit(param_name[2]) \/ ~IsDigit(param_name[3])
    THEN Raise("ValueError")
    ELSE LET row == NpIndex(int(param_name[2]) - 1, tf.network.nports)
             col == NpIndex(int(param_name[3]) - 1, tf.network.nports)
         IN  IF row < 0 \/ col < 0 THEN Raise("IndexError")
             ELSE Return(tf.frequency, Column(tf.network, row, col), <<>>)

\* get_s_parameter with the two digits read in the other order.
get_s_parameter_swapped(tf, param_name) ==
    IF ~InList(param_name, tf.s_params) THEN Raise("ValueError")
    ELSE LET row == NpIndex(int(param_name[3]) - 1, tf.network.nports)
             col == NpIndex(int(param_name[2]) - 1, tf.network.nports)
         IN  IF row < 0 \/ col < 0 THEN Raise("IndexError")
             ELSE Return(tf.frequency, Column(tf.network, row, col), <<>>)

\* get_s_parameter without the "- 1" that turns a port number into an index.
get_s_parameter_noshift(tf, param_name) ==
    IF ~InList(param_name, tf.s_params) THEN Raise("ValueError")
    ELSE LET row == NpIndex(int(param_name[2]), tf.network.nports)
             col == NpIndex(int(param_name[3]), tf.network.nports)
         IN  IF row < 0 \/ col < 0 THEN Raise("IndexError")
             ELSE Return(tf.frequency, Column(tf.network, row, col), <<>>)

get_s_parameter(tf, param_name) ==
    IF ~InList(param_name, tf.s_params) THEN Raise("ValueError")
    ELSE LET row == NpIndex(int(param_name[2]) - 1, tf.network.nports)
             col == NpIndex(int(param_name[3]) - 1, tf.network.nports)
         IN  IF row < 0 \/ col < 0 THEN Raise("IndexError")
             ELSE Return(tf.frequency, Column(tf.network, row, col), <<>>)

(***************************************************************************)
(* numpy arithmetic on the fixed-point samples.  A value that needs a      *)
(* transcendental function is kept as the term <<function, argument>>.     *)
(***************************************************************************)
\* floor(sqrt(n)) by bisection on lo..hi.
RECURSIVE ISqrtIn(_, _, _)
ISqrtIn(n, lo, hi) ==
    IF lo >= hi THEN lo
    ELSE LET mid == (lo + hi + 1) \div 2
         IN  IF mid * mid <= n THEN ISqrtIn(n, mid, hi)
             ELSE ISqrtIn(n, lo, mid - 1)

ISqrt(n) == ISqrtIn(n, 0, IF n < 46340 THEN n ELSE 46340)

\* np.abs of a complex sample.
NpAbs(v) == ISqrt(v[1] * v[1] + v[2] * v[2])

\* 20 * np.log10(a): -inf at a = 0 (a warning, not an exception).
Db(a) == IF a = 0 THEN <<"-inf", 0>> ELSE <<"20*log10", a>>

\* np.angle(v, deg): atan2(im, re), in degrees or radians.
NpAngle(v, deg) == <<IF deg THEN "atan2_deg" ELSE "atan2_rad", v>>

\* np.clip(a, 0, 0.9999).
Clip(a) == IF a < 0 THEN 0 ELSE IF a > Scale - 1 THEN Scale - 1 ELSE a

\* (1 + gamma) / (1 - gamma) as the fraction <<numerator, denominator>>.
VswrOf(gamma) == <<Scale + gamma, Scale - gamma>>

Map1(Op(_), xs) == [k \in 1..Len(xs) |-> Op(xs[k])]

\* A sample on an axis or a diagonal (or zero): np.angle of it is a whole
\* number of eighths of a turn.
OnOctant(v) == v[1] = 0 \/ v[2] = 0 \/ v[1] = v[2] \/ v[1] = -v[2]

\* np.angle(v) of such a sample in units of pi/4: in -3..4, 0 for v = 0.
Angle8(v) ==
    IF v[2] = 0 THEN (IF v[1] >= 0 THEN 0 ELSE 4)
    ELSE IF v[2] > 0
    THEN (IF v[1] = v[2] THEN 1 ELSE IF v[1] = 0 THEN 2 ELSE 3)
    ELSE (IF v[1] = v[2] THEN -3 ELSE IF v[1] = 0 THEN -2 ELSE -1)

\* np.unwrap, in units of pi/4 (pi = 4, the period = 8).  The correction of
\* one difference dd: ddmod = mod(dd + pi, 2 pi) - pi, set to pi where it is
\* -pi and dd > 0; ph_correct = ddmod - dd, 0 where abs(dd) < pi.
PhCorrect(dd) ==
    LET m == ((dd + 4) % 8) - 4
        ddmod == IF m = -4 /\ dd > 0 THEN 4 ELSE m
    IN  IF dd < 4 /\ dd > -4 THEN 0 ELSE ddmod - dd

\* ph_correct.cumsum() up to sample n (1-based).
RECURSIVE CumCorrect(_, _)
CumCorrect(p, n) ==
    IF n <= 1 THEN 0 ELSE CumCorrect(p, n - 1) + PhCorrect(p[n] - p[n - 1])

\* The phase as np.angle gives it, not unwrapped.
np_unwrap_skipped(p) == p

np_unwrap(p) == [n \in 1..Len(p) |-> p[n] + CumCorrect(p, n)]

\* A quotient as the fraction <<numerator, denominator>> in lowest terms
\* with a positive denominator.
RECURSIVE Gcd(_, _)
Gcd(a, b) == IF b = 0 THEN a ELSE Gcd(b, a % b)

Quotient(num, den) ==
    LET g == Gcd(IF num < 0 THEN -num ELSE num, IF den < 0 THEN -den ELSE den)
        sign == IF den < 0 THEN -1 ELSE 1
    IN  <<sign * (num \div g), sign * (den \div g)>>

\* -np.gradient(phase, omega)[n - 1] for len(phase) > 1, phase in units of
\* pi/4 and omega = 2 pi freq with freq evenly spaced (the frequencies of
\* the parser are): one-sided differences at the two ends, centred
\* differences inside.  In seconds: -(dphase pi/4) / (2 pi dfreq).
NegGradient(phase, freq, n) ==
    LET lo == IF n = 1 THEN 1 ELSE n - 1
        hi == IF n = Len(phase) THEN n ELSE n + 1
    IN  Quotient(-(phase[hi] - phase[lo]), 8 * (freq[hi] - freq[lo]))

\* -np.gradient(np.unwrap(np.angle(s_data)), 2 * np.pi * freq): computed for
\* samples on the axes and diagonals, kept as a term per index for others.
group_delay_series(freq, s_data) ==
    IF \A k \in 1..Len(s_data) : OnOctant(s_data[k])
    THEN [k \in 1..Len(s_data) |->
            NegGradient(np_unwrap(Map1(Angle8, s_data)), freq, k)]
    ELSE [k \in 1..Len(s_data) |-> <<"-gradient(unwrap(angle),omega)", k>>]

(***************************************************************************)
(* The calculators of TouchstoneFile.  Each starts with get_s_parameter    *)
(* and lets its exception through.                                         *)
(***************************************************************************)
\* get_magnitude_db with the factor of a power ratio: 10 * np.log10.
get_magnitude_db_power(tf, param_name) ==
    LET r == get_s_parameter(tf, param_name)
        mag(v) == IF NpAbs(v) = 0 THEN <<"-inf", 0>> ELSE <<"10*log10", NpAbs(v)>>
    IN  IF ~r.ok THEN r ELSE Return(r.freq, Map1(mag, r.data), <<>>)

get_magnitude_db(tf, param_name) ==
    LET r == get_s_parameter(tf, param_name)
        mag(v) == Db(NpAbs(v))
    IN  IF ~r.ok THEN r ELSE Return(r.freq, Map1(mag, r.data), <<>>)

get_magnitude_linear(tf, param_name) ==
    LET r == get_s_parameter(tf, param_name)
    IN  IF ~r.ok THEN r ELSE Return(r.freq, Map1(NpAbs, r.data), <<>>)

get_phase_deg(tf, param_name) ==
    LET r == get_s_parameter(tf, param_name)
        phase(v) == NpAngle(v, TRUE)
    IN  IF ~r.ok THEN r ELSE Return(r.freq, Map1(phase, r.data), <<>>)

get_phase_rad(tf, param_name) ==
    LET r == get_s_parameter(tf, param_name)
        phase(v) == NpAngle(v, FALSE)
    IN  IF ~r.ok THEN r ELSE Return(r.freq, Map1(phase, r.data), <<>>)

\* get_real_imag returning the real part alone.
get_real_imag_real_only(tf, param_name) ==
    LET r == get_s_parameter(tf, param_name)
        real(v) == v[1]
    IN  IF ~r.ok THEN r ELSE Return(r.freq, Map1(real, r.data), <<>>)

get_real_imag(tf, param_name) ==
    LET r == get_s_parameter(tf, param_name)
        real(v) == v[1]
        imag(v) == v[2]
    IN  IF ~r.ok THEN r
        ELSE Return(r.freq, Map1(real, r.data), Map1(imag, r.data))

\* get_vswr without np.clip.
get_vswr_unclipped(tf, param_name) ==
    LET r == get_s_parameter(tf, param_name)
        vswr(v) == VswrOf(NpAbs(v))
    IN  IF ~r.ok THEN r ELSE Return(r.freq, Map1(vswr, r.data), <<>>)

get_vswr(tf, param_name) ==
    LET r == get_s_parameter(tf, param_name)
        vswr(v) == VswrOf(Clip(NpAbs(v)))
    IN  IF ~r.ok THEN r ELSE Return(r.freq, Map1(vswr, r.data), <<>>)

\* get_group_delay without the test of len(phase): np.gradient is applied to
\* every series and raises ValueError on fewer than two samples.
get_group_delay_untested(tf, param_name) ==
    LET r == get_s_parameter(tf, param_name)
    IN  IF ~r.ok THEN r
        ELSE IF Len(r.data) > 1
        THEN Return(r.freq, group_delay_series(r.freq, r.data), <<>>)
        ELSE Raise("ValueError")

\* len(phase) > 1: -np.gradient(unwrap(angle), 2*pi*freq); otherwise
\* np.zeros_like(phase).
get_group_delay(tf, param_name) ==
    LET r == get_s_parameter(tf, param_name)
    IN  IF ~r.ok THEN r
        ELSE IF Len(r.data) > 1
        THEN Return(r.freq, group_delay_series(r.freq, r.data), <<>>)
        ELSE Return(r.freq, [k \in 1..Len(r.data) |-> 0], <<>>)

\* Returns the samples alone; the frequency vector is dropped.
get_complex_data(tf, param_name) ==
    LET r == get_s_parameter(tf, param_name)
    IN  IF ~r.ok THEN r ELSE Return(<<>>, r.data, <<>>)

\* The methods of TouchstoneFile that take a parameter name.
Calculators == {"get_s_parameter", "get_magnitude_db", "get_magnitude_linear",
                "get_phase_deg", "get_phase_rad", "get_real_imag", "get_vswr",
                "get_group_delay", "get_complex_data"}

\* tf.<method>(param_name)
Invoke(method, tf, param_name) ==
    CASE method = "get_s_parameter"      -> get_s_parameter(tf, param_name)
      [] method = "get_magnitude_db"     -> get_magnitude_db(tf, param_name)
      [] method = "get_magnitude_linear" -> get_magnitude_linear(tf, param_name)
      [] method = "get_phase_deg"        -> get_phase_deg(tf, param_name)
      [] method = "get_phase_rad"        -> get_phase_rad(tf, param_name)
      [] method = "get_real_imag"        -> get_real_imag(tf, param_name)
      [] method = "get_vswr"             -> get_vswr(tf, param_name)
      [] method = "get_group_delay"      -> get_group_delay(tf, param_name)
      [] method = "get_complex_data"     -> get_complex_data(tf, param_name)

(***************************************************************************)
(* PlotEngine                                                              *)
(***************************************************************************)
\* PlotEngine.PLOT_TYPES
PLOT_TYPES == <<"Magnitude (dB)", "Magnitude (Linear)", "Phase (Degrees)",
                "Phase (Radians)", "Smith Chart", "Real vs Imaginary", "VSWR",
                "Group Delay">>

\* The items of PlotControlsWidget.plot_type_combo, in plot_controls.py and in
\* ui_components.py alike.
PlotTypeItems == <<"Magnitude (dB)", "Magnitude (Linear)", "Phase (Degrees)",
                   "Phase (Radians)", "Smith Chart", "Real vs Imaginary", "VSWR",
                   "Group Delay">>

\* A limit of the configuration: None, or a number.
None == [set |-> FALSE, v |-> 0]
Num(v) == [set |-> TRUE, v |-> v]

\* PlotEngine.__init__: plot_config
InitialPlotConfig ==
    [title |-> "S-Parameter Plot", xlabel |-> "Frequency (GHz)",
     ylabel |-> "Magnitude (dB)", grid |-> TRUE, legend_loc |-> "best",
     xlim_auto |-> TRUE, ylim_auto |-> TRUE,
     xlim |-> <<None, None>>, ylim |-> <<None, None>>]

\* figure.clear(): no axes.  xlim and ylim are <<>> while matplotlib scales the
\* axis itself, and <<lo, hi>> once set_xlim or set_ylim was called.
NoAxes == [projection |-> "none", artists |-> <<>>, xlabel |-> "", ylabel |-> "",
           title |-> "", grid |-> FALSE, legend |-> "", xlim |-> <<>>,
           ylim |-> <<>>, tight |-> FALSE]

\* figure.add_subplot(111, projection)
add_subplot(projection) == [NoAxes EXCEPT !.projection = projection]

\* The n-th colour of matplotlib's property cycle, taken by a plot call that
\* is given no colour.
CycleColors == <<"C0", "C1", "C2", "C3", "C4", "C5", "C6", "C7", "C8", "C9">>
CycleColor(n) == CycleColors[(n % 10) + 1]

\* What a loop over the traces has done so far: the artists added to the
\* axes, the calculator calls made, the labels reported by print, how many
\* colours were taken from the cycle, whether the local ylabel is bound.
LoopStart == [artists |-> <<>>, calls |-> <<>>, printed |-> <<>>, cycle |-> 0,
              ylabel_bound |-> FALSE]

\* An artist on the axes.  A label is <<legend name, suffix>>.  color "" is
\* trace.get('color', None) = None: the next colour of the cycle is taken.
Line(idx, x, y, label, color, style, acc) ==
    [idx |-> idx, x |-> x, y |-> y, label |-> label, style |-> style,
     color |-> IF color # "" THEN color ELSE CycleColor(acc.cycle)]

\* ax.plot(x, y, ...) in the loop state acc.
ax_plot(idx, x, y, label, color, style, acc) ==
    [acc EXCEPT !.artists = Append(@, Line(idx, x, y, label, color, style, acc)),
                !.cycle = IF color # "" THEN @ ELSE @ + 1]

\* freq / 1e9, each value kept as the fraction <<Hz, 10^9>>.
Ghz(freq) == [k \in 1..Len(freq) |-> <<freq[k], 1000000000>>]

CallOf(method, trace) ==
    [method |-> method, filepath |-> trace.touchstone_file.filepath,
     param |-> trace.param_name]

\* The chain with the branches of VSWR and Group Delay exchanged.
StandardCalculator_exchanged(plot_type) ==
    CASE plot_type = "Magnitude (dB)"     -> "get_magnitude_db"
      [] plot_type = "Magnitude (Linear)" -> "get_magnitude_linear"
      [] plot_type = "Phase (Degrees)"    -> "get_phase_deg"
      [] plot_type = "Phase (Radians)"    -> "get_phase_rad"
      [] plot_type = "VSWR"               -> "get_group_delay"
      [] plot_type = "Group Delay"        -> "get_vswr"
      [] OTHER                            -> ""

\* The if/elif chain of _plot_standard: the calculator of a plot type, "" for
\* the final else (continue).
StandardCalculator(plot_type) ==
    CASE plot_type = "Magnitude (dB)"     -> "get_magnitude_db"
      [] plot_type = "Magnitude (Linear)" -> "get_magnitude_linear"
      [] plot_type = "Phase (Degrees)"    -> "get_phase_deg"
      [] plot_type = "Phase (Radians)"    -> "get_phase_rad"
      [] plot_type = "VSWR"               -> "get_vswr"
      [] plot_type = "Group Delay"        -> "get_group_delay"
      [] OTHER                            -> ""

\* The body of the try block of _plot_standard once the calculator has
\* returned or raised r.
standard_try(r, method, trace, k, acc) ==
    LET called == [acc EXCEPT !.calls = Append(@, CallOf(method, trace))]
    IN  IF ~r.ok
        THEN [called EXCEPT !.printed = Append(@, trace.legend_name)]
        ELSE ax_plot(k, Ghz(r.freq), r.data, <<trace.legend_name, "">>,
                     trace.color, "-", [called EXCEPT !.ylabel_bound = TRUE])

\* One iteration of the loop of _plot_standard on traces[k].
StandardStep(plot_type, trace, k, acc) ==
    LET method == StandardCalculator(plot_type)
    IN  IF method = "" THEN acc
        ELSE CHOOSE out \in
               {standard_try(r, method, trace, k, acc) :
                  r \in {Invoke(method, trace.touchstone_file, trace.param_name)}} :
               TRUE

\* The body of the try block of _plot_smith_chart: the line, then the start
\* and end markers, which index theta[0] and theta[-1].
smith_try(r, trace, k, acc) ==
    LET called == [acc EXCEPT !.calls = Append(@, CallOf("get_complex_data", trace))]
        theta == [n \in 1..Len(r.data) |-> NpAngle(r.data[n], FALSE)]
        rad == [n \in 1..Len(r.data) |-> NpAbs(r.data[n])]
        line == ax_plot(k, theta, rad, <<trace.legend_name, "">>, trace.color, "-",
                        called)
        first == ax_plot(k, <<theta[1]>>, <<rad[1]>>, <<<<>>, "">>, trace.color, "o",
                         line)
        last == ax_plot(k, <<theta[Len(theta)]>>, <<rad[Len(rad)]>>, <<<<>>, "">>,
                        trace.color, "s", first)
    IN  IF ~r.ok THEN [called EXCEPT !.printed = Append(@, trace.legend_name)]
        ELSE IF Len(r.data) = 0
        THEN [line EXCEPT !.printed = Append(@, trace.legend_name)]
        ELSE last

\* One iteration of the loop of _plot_smith_chart.
SmithStep(trace, k, acc) ==
    CHOOSE out \in
      {smith_try(r, trace, k, acc) :
         r \in {get_complex_data(trace.touchstone_file, trace.param_name)}} : TRUE

\* The body of the try block of _plot_real_imag: the real part, then the
\* imaginary part dashed in the colour of the real part.
real_imag_try(r, trace, k, acc) ==
    LET called == [acc EXCEPT !.calls = Append(@, CallOf("get_real_imag", trace))]
        real == ax_plot(k, Ghz(r.freq), r.data, <<trace.legend_name, " (Real)">>,
                        trace.color, "-", called)
        colour == real.artists[Len(real.artists)].color
    IN  IF ~r.ok THEN [called EXCEPT !.printed = Append(@, trace.legend_name)]
        ELSE ax_plot(k, Ghz(r.freq), r.data2, <<trace.legend_name, " (Imag)">>,
                     colour, "--", real)

\* One iteration of the loop of _plot_real_imag.
RealImagStep(trace, k, acc) ==
    CHOOSE out \in
      {real_imag_try(r, trace, k, acc) :
         r \in {get_real_imag(trace.touchstone_file, trace.param_name)}} : TRUE

\* One iteration of the loop of the plot type's drawing function.
TraceStep(plot_type, trace, k, acc) ==
    CASE plot_type = "Smith Chart"       -> SmithStep(trace, k, acc)
      [] plot_type = "Real vs Imaginary" -> RealImagStep(trace, k, acc)
      [] OTHER                           -> StandardStep(plot_type, trace, k, acc)

\* The loop taking the traces from the end of the list.
RECURSIVE TraceLoop_reversed(_, _, _)
TraceLoop_reversed(plot_type, traces, n) ==
    IF n = 0 THEN LoopStart
    ELSE CHOOSE out \in {TraceStep(plot_type, traces[Len(traces) - n + 1],
                                   Len(traces) - n + 1, acc) :
                           acc \in {TraceLoop_reversed(plot_type, traces, n - 1)}} :
           TRUE

\* for trace in traces: the first n traces, in list order.  (The record of
\* the iterations before is evaluated once, as the element of a set.)
RECURSIVE TraceLoop(_, _, _)
TraceLoop(plot_type, traces, n) ==
    IF n = 0 THEN LoopStart
    ELSE CHOOSE out \in {TraceStep(plot_type, traces[n], n, acc) :
                           acc \in {TraceLoop(plot_type, traces, n - 1)}} : TRUE

\* The axis limits applied after the loop.
Limit(auto, lim) ==
    IF ~auto /\ lim[1] # None /\ lim[2] # None THEN <<lim[1].v, lim[2].v>> ELSE <<>>

\* What a plot call leaves behind: the axes, the loop's record, whether
\* canvas.draw() was reached, and the exception that left plot(), if any.
PlotResult(axes, acc, drawn, raised) ==
    [ax |-> axes, calls |-> acc.calls, printed |-> acc.printed, drawn |-> drawn,
     raised |-> raised]

\* _plot_standard after its loop.  The label argument of
\* plot_config.get('ylabel', ylabel) is evaluated before the call: it raises
\* UnboundLocalError when no iteration has bound ylabel.
standard_finish(config, acc) ==
    LET ax0 == [add_subplot("rectilinear") EXCEPT !.artists = acc.artists]
    IN  IF ~acc.ylabel_bound
        THEN PlotResult([ax0 EXCEPT !.xlabel = config.xlabel], acc, FALSE,
                        "UnboundLocalError")
        ELSE PlotResult([ax0 EXCEPT !.xlabel = config.xlabel,
                                    !.ylabel = config.ylabel,
                                    !.title = config.title,
                                    !.grid = config.grid,
                                    !.legend = config.legend_loc,
                                    !.xlim = Limit(config.xlim_auto, config.xlim),
                                    !.ylim = Limit(config.ylim_auto, config.ylim),
                                    !.tight = TRUE],
                        acc, TRUE, "")

\* _plot_standard
plot_standard(config, plot_type, traces) ==
    CHOOSE out \in {standard_finish(config, acc) :
                      acc \in {TraceLoop(plot_type, traces, Len(traces))}} : TRUE

\* _plot_smith_chart after its loop, with the grid of _draw_smith_grid (its
\* circles are computed and never added to the axes).
smith_finish(config, acc) ==
    LET ax0 == [add_subplot("polar") EXCEPT !.artists = acc.artists]
    IN  PlotResult([ax0 EXCEPT !.grid = TRUE, !.ylim = <<0, 1>>,
                               !.title = config.title,
                               !.legend = "upper left", !.tight = TRUE],
                   acc, TRUE, "")

\* _plot_smith_chart
plot_smith_chart(config, traces) ==
    CHOOSE out \in {smith_finish(config, acc) :
                      acc \in {TraceLoop("Smith Chart", traces, Len(traces))}} : TRUE

\* _plot_real_imag after its loop.
real_imag_finish(config, acc) ==
    LET ax0 == [add_subplot("rectilinear") EXCEPT !.artists = acc.artists]
    IN  PlotResult([ax0 EXCEPT !.xlabel = config.xlabel,
                               !.ylabel = "Real / Imaginary",
                               !.title = config.title,
                               !.grid = config.grid,
                               !.legend = config.legend_loc,
                               !.xlim = Limit(config.xlim_auto, config.xlim),
                               !.ylim = Limit(config.ylim_auto, config.ylim),
                               !.tight = TRUE],
                   acc, TRUE, "")

\* _plot_real_imag
plot_real_imag(config, traces) ==
    CHOOSE out \in {real_imag_finish(config, acc) :
                      acc \in {TraceLoop("Real vs Imaginary", traces, Len(traces))}} :
      TRUE

\* The placeholder of an empty trace list: ax.text(0.5, 0.5, 'No data to plot').
Placeholder ==
    [add_subplot("rectilinear") EXCEPT
       !.artists = <<[idx |-> 0, x |-> <<>>, y |-> <<>>, label |-> <<<<>>, "">>,
                      style |-> "text", color |-> "", text |-> "No data to plot"]>>]

\* plot() without the test for an empty list.
plot_without_empty_test(config, plot_type, traces) ==
    IF plot_type = "Smith Chart" THEN plot_smith_chart(config, traces)
    ELSE IF plot_type = "Real vs Imaginary" THEN plot_real_imag(config, traces)
    ELSE plot_standard(config, plot_type, traces)

\* PlotEngine.plot(plot_type, traces) after clear_plot().
plot(config, plot_type, traces) ==
    IF traces = <<>> THEN PlotResult(Placeholder, LoopStart, TRUE, "")
    ELSE IF plot_type = "Smith Chart" THEN plot_smith_chart(config, traces)
    ELSE IF plot_type = "Real vs Imaginary" THEN plot_real_imag(config, traces)
    ELSE plot_standard(config, plot_type, traces)

(***************************************************************************)
(* State.                                                                  *)
(***************************************************************************)
VARIABLES
    tfile,        \* accessor: the TouchstoneFile under test, NoFile before a load
    call,         \* accessor: the last call made, [op, path, param]
    ret,          \* accessor: what that call returned or raised
    plot_config,  \* PlotEngine.plot_config
    ax,           \* PlotEngine.figure / PlotEngine.ax: the axes and their artists
    last_traces,  \* PlotEngine.last_traces
    plot_call,    \* the last call of PlotEngine.plot: its plot_type, "" before
    plot_log,     \* that call's calculator calls, printed errors and outcome
    app,          \* windows: the entry point that runs, "" for none
    files,        \* FileManager.files of a FileManager used on its own
    fmw,          \* the FileManagerWindow
    mw,           \* the MainWindow, its FileManager and its FileSlotWidgets
    handler,      \* windows: the call or handler that ran last
    pw,           \* the PlotWindow: is it shown, and its PlotControlsWidget
    fsd           \* the FileSelectorDialog of main_separate.py

accVars == <<tfile, call, ret>>
engineVars == <<plot_config, ax, last_traces, plot_call, plot_log>>
plotVars == <<pw, fsd>>
appVars == <<app, files, fmw, mw, handler, pw, fsd>>
vars == <<tfile, call, ret, plot_config, ax, last_traces, plot_call, plot_log,
          app, files, fmw, mw, handler, pw, fsd>>

\* Python's None for an object reference.
NoFile == [filepath |-> MissingPath, network |-> Network(MissingPath),
           frequency |-> <<>>, s_params |-> <<>>]

NoLog == [calls |-> <<>>, printed |-> <<>>, drawn |-> FALSE, raised |-> ""]

\* PlotEngine.__init__
EngineIdleState ==
    /\ plot_config = InitialPlotConfig
    /\ ax = NoAxes
    /\ last_traces = <<>>
    /\ plot_call = ""
    /\ plot_log = NoLog

(***************************************************************************)
(* The windows.  Each of the three entry points builds its own objects:    *)
(* a FileManager used on its own, the FileManagerWindow of                 *)
(* main_improved.py, and the MainWindow of main.py with its four           *)
(* FileSlotWidgets, its FileManager and its PlotEngine.                    *)
(***************************************************************************)
\* Number of file slots of a window (for i in range(4)).
SlotCount == 4
\* Number of slots the user works with, from slot 0 on.
UsedSlots == 2

SlotIds == 0..(SlotCount - 1)
ActedSlots == {s \in SlotIds : s < UsedSlots}

\* '' as returned by a cancelled file dialog, and None for a path.
EmptyPath == [kind |-> "", ports |-> 0, points |-> 0]
NonePath == [kind |-> "None", ports |-> 0, points |-> 0]

\* A Python dict whose items the code iterates (selected_s_params, the
\* dict built in populate_table) is a sequence of <<key, value>> in
\* insertion order.
DictHas(d, k) == \E n \in 1..Len(d) : d[n][1] = k
DictGet(d, k, default) ==
    IF DictHas(d, k) THEN d[CHOOSE n \in 1..Len(d) : d[n][1] = k][2] ELSE default
DictSet(d, k, v) ==
    IF DictHas(d, k)
    THEN [n \in 1..Len(d) |-> IF d[n][1] = k THEN <<k, v>> ELSE d[n]]
    ELSE Append(d, <<k, v>>)
DictDel(d, k) == LET Keep(e) == e[1] # k IN SelectSeq(d, Keep)

\* A dict the code only indexes (FileManager.files, loaded_files) is a
\* function on its keys.
EmptyDict == [k \in {} |-> NoFile]
KeyIn(d, k) == k \in DOMAIN d
ItemGet(d, k, default) == IF k \in DOMAIN d THEN d[k] ELSE default
ItemSet(d, k, v) == [x \in DOMAIN d \cup {k} |-> IF x = k THEN v ELSE d[x]]
ItemDel(d, k) == [x \in DOMAIN d \ {k} |-> d[x]]

(***************************************************************************)
(* FileManager                                                             *)
(***************************************************************************)
\* FileManager.load_file(slot_id, filepath): the object is constructed
\* first; the slot is assigned only if that did not raise.
FileManager_load_file(files_, slot_id, filepath) ==
    LET r == load_file(filepath)
    IN  IF r.ok
        THEN [ok |-> TRUE, err |-> "", files |-> ItemSet(files_, slot_id, r.obj)]
        ELSE [ok |-> FALSE, err |-> r.err, files |-> files_]

\* remove_file that forgets every slot.
FileManager_remove_file_all(files_, slot_id) == [k \in {} |-> files_[k]]

\* FileManager.remove_file(slot_id)
FileManager_remove_file(files_, slot_id) ==
    IF KeyIn(files_, slot_id) THEN ItemDel(files_, slot_id) ELSE files_

\* FileManager.get_file(slot_id)
FileManager_get_file(files_, slot_id) == ItemGet(files_, slot_id, NoFile)

\* FileManager.clear_all()
FileManager_clear_all(files_) == EmptyDict

(***************************************************************************)
(* SParamSelectorDialog: a table with one row per parameter of the file.   *)
(***************************************************************************)
\* {param: legend for param, legend in current_selections}
RECURSIVE DictOf(_, _)
DictOf(pairs, n) ==
    IF n = 0 THEN <<>>
    ELSE DictSet(DictOf(pairs, n - 1), pairs[n][1], pairs[n][2])

\* populate_table that labels every row by its parameter.
populate_table_relabelled(touchstone_file, current_selections) ==
    LET current_dict == DictOf(current_selections, Len(current_selections))
    IN  [row \in 1..Len(touchstone_file.s_params) |->
          LET param == touchstone_file.s_params[row]
          IN  [param   |-> param,
               legend  |-> param,
               checked |-> DictHas(current_dict, param)]]

\* populate_table
populate_table(touchstone_file, current_selections) ==
    LET current_dict == DictOf(current_selections, Len(current_selections))
    IN  [row \in 1..Len(touchstone_file.s_params) |->
          LET param == touchstone_file.s_params[row]
          IN  [param   |-> param,
               legend  |-> DictGet(current_dict, param, param),
               checked |-> DictHas(current_dict, param)]]

\* select_all and select_none
select_all(table) == [row \in 1..Len(table) |-> [table[row] EXCEPT !.checked = TRUE]]
select_none(table) == [row \in 1..Len(table) |-> [table[row] EXCEPT !.checked = FALSE]]

\* str.strip() of a text of blanks and other characters.
RECURSIVE lstrip(_)
lstrip(text) == IF text # <<>> /\ Head(text) = " " THEN lstrip(Tail(text)) ELSE text
RECURSIVE rstrip(_)
rstrip(text) ==
    IF text # <<>> /\ text[Len(text)] = " "
    THEN rstrip(SubSeq(text, 1, Len(text) - 1)) ELSE text
strip(text) == rstrip(lstrip(text))

\* get_selections: the first n rows.
RECURSIVE get_selections_rows(_, _)
get_selections_rows(table, n) ==
    IF n = 0 THEN <<>>
    ELSE LET before == get_selections_rows(table, n - 1)
             legend_name == strip(table[n].legend)
         IN  IF ~table[n].checked THEN before
             ELSE Append(before, <<table[n].param,
                                   IF legend_name = <<>> THEN table[n].param
                                   ELSE legend_name>>)

\* get_selections without the fallback: the stripped text of the legend
\* cell is the label, blank or not.
get_selections_unfilled(table) ==
    LET Checked(row) == row.checked
        rows == SelectSeq(table, Checked)
    IN  [n \in 1..Len(rows) |-> <<rows[n].param, strip(rows[n].legend)>>]

\* get_selections
get_selections(table) == get_selections_rows(table, Len(table))

\* What the user does in the dialog before closing it: nothing, one of the
\* two buttons, or an edit of the first row (its check box, its legend).
DialogEdits == {"none", "select_all", "select_none", "toggle", "rename", "blank"}

DialogEdit(table, edit) ==
    CASE edit = "select_all"  -> select_all(table)
      [] edit = "select_none" -> select_none(table)
      [] edit = "toggle" /\ table # <<>> ->
           [table EXCEPT ![1].checked = ~@]
      [] edit = "rename" /\ table # <<>> ->
           [table EXCEPT ![1].legend = <<"x">>, ![1].checked = TRUE]
      [] edit = "blank" /\ table # <<>> ->
           [table EXCEPT ![1].legend = <<" ">>, ![1].checked = TRUE]
      [] OTHER -> table

(***************************************************************************)
(* FileManagerWindow.  Its handlers work on a record w of the window's     *)
(* dicts and slot layouts together with what the handler shows: the text   *)
(* it puts on the status label (<<>> if it sets none) and its message      *)
(* boxes.                                                                  *)
(***************************************************************************)
\* create_file_slot: the label and the two buttons kept on the layout.
EmptySlotLayout ==
    [file_info_label |-> <<"No file loaded">>, choose_button |-> FALSE,
     remove_button |-> FALSE]

\* FileManagerWindow.__init__ and init_ui.
FileManagerWindow_init ==
    [loaded_files |-> EmptyDict, selected_s_params |-> <<>>,
     file_slots |-> [s \in SlotIds |-> EmptySlotLayout]]

\* load_file with the slot's selections cleared before the file is parsed.
FileManagerWindow_load_file_eager(w, slot_id, filepath) ==
    IF filepath = EmptyPath THEN w
    ELSE LET r == load_file(filepath)
             cleared == [w EXCEPT !.selected_s_params = DictSet(@, slot_id, <<>>)]
         IN  IF ~r.ok
             THEN [cleared EXCEPT !.messages =
                     Append(@, <<"warning", "Error", "Failed to load file">>)]
             ELSE [cleared EXCEPT
                     !.loaded_files = ItemSet(@, slot_id, r.obj),
                     !.file_slots[slot_id] =
                        [file_info_label |-> <<filepath, Len(r.obj.s_params)>>,
                         choose_button |-> TRUE, remove_button |-> TRUE],
                     !.status_label = <<"Loaded", filepath, Len(r.obj.s_params)>>]

\* load_file that keeps the slot's selections.
FileManagerWindow_load_file_keeping(w, slot_id, filepath) ==
    IF filepath = EmptyPath THEN w
    ELSE LET r == load_file(filepath)
         IN  IF ~r.ok
             THEN [w EXCEPT !.messages =
                     Append(@, <<"warning", "Error", "Failed to load file">>)]
             ELSE [w EXCEPT
                     !.loaded_files = ItemSet(@, slot_id, r.obj),
                     !.file_slots[slot_id] =
                        [file_info_label |-> <<filepath, Len(r.obj.s_params)>>,
                         choose_button |-> TRUE, remove_button |-> TRUE],
                     !.status_label = <<"Loaded", filepath, Len(r.obj.s_params)>>]

\* FileManagerWindow.load_file(slot_id) once the file dialog has returned
\* filepath.
FileManagerWindow_load_file(w, slot_id, filepath) ==
    IF filepath = EmptyPath THEN w
    ELSE LET r == load_file(filepath)
         IN  IF ~r.ok
             THEN [w EXCEPT !.messages =
                     Append(@, <<"warning", "Error", "Failed to load file">>)]
             ELSE [w EXCEPT
                     !.loaded_files = ItemSet(@, slot_id, r.obj),
                     !.file_slots[slot_id] =
                        [file_info_label |-> <<filepath, Len(r.obj.s_params)>>,
                         choose_button |-> TRUE, remove_button |-> TRUE],
                     !.selected_s_params = DictSet(@, slot_id, <<>>),
                     !.status_label = <<"Loaded", filepath, Len(r.obj.s_params)>>]

\* FileManagerWindow.choose_s_params(slot_id): the dialog is populated, the
\* user edits it and accepts or cancels.
FileManagerWindow_choose_s_params(w, slot_id, edit, accepted) ==
    IF ~KeyIn(w.loaded_files, slot_id) THEN w
    ELSE LET touchstone_file == w.loaded_files[slot_id]
             current_selections == DictGet(w.selected_s_params, slot_id, <<>>)
             table == DialogEdit(populate_table(touchstone_file, current_selections),
                                 edit)
             selections == get_selections(table)
         IN  IF ~accepted THEN w
             ELSE [w EXCEPT
                     !.selected_s_params = DictSet(@, slot_id, selections),
                     !.status_label = <<touchstone_file.filepath, Len(selections),
                                        "S-parameters selected for plotting">>]

\* remove_file that leaves the two buttons as they are.
FileManagerWindow_remove_file_buttons_kept(w, slot_id) ==
    [w EXCEPT !.loaded_files = ItemDel(@, slot_id),
              !.selected_s_params = DictDel(@, slot_id),
              !.file_slots[slot_id].file_info_label = <<"No file loaded">>,
              !.status_label = <<"File removed">>]

\* FileManagerWindow.remove_file(slot_id)
FileManagerWindow_remove_file(w, slot_id) ==
    [w EXCEPT !.loaded_files = ItemDel(@, slot_id),
              !.selected_s_params = DictDel(@, slot_id),
              !.file_slots[slot_id] = EmptySlotLayout,
              !.status_label = <<"File removed">>]

\* for slot_id in range(4): self.remove_file(slot_id), the first n slots.
RECURSIVE FileManagerWindow_remove_range(_, _)
FileManagerWindow_remove_range(w, n) ==
    IF n = 0 THEN w
    ELSE FileManagerWindow_remove_file(FileManagerWindow_remove_range(w, n - 1), n - 1)

\* FileManagerWindow.clear_all_files() once the question box has returned
\* reply.
FileManagerWindow_clear_all_files(w, reply) ==
    IF reply # "Yes" THEN w
    ELSE [FileManagerWindow_remove_range(w, SlotCount) EXCEPT
            !.status_label = <<"All files cleared">>]

(***************************************************************************)
(* FileSlotWidget and MainWindow.  The handlers work on a record m of the  *)
(* window: its FileManager's dict, its four widgets, self.traces, what     *)
(* its PlotEngine holds, and what the handler shows: the text it puts on   *)
(* the status bar (<<>> if it sets none) and its message boxes.            *)
(* raised names an exception that has left a slot function uncaught; the   *)
(* rest of the handler does not run then.                                  *)
(***************************************************************************)
\* FileSlotWidget.__init__ and init_ui
FileSlotWidget_init ==
    [filepath         |-> NonePath,
     touchstone_file  |-> NoFile,
     available_params |-> <<>>,
     file_label       |-> <<"No file loaded">>,
     browse_button    |-> "Browse",
     remove_button    |-> FALSE,
     param_combo      |-> [items |-> <<>>, currentText |-> <<>>, enabled |-> FALSE],
     legend_edit      |-> [text |-> <<>>, enabled |-> FALSE],
     enabled          |-> FALSE,
     enabled_checkbox |-> FALSE]

\* FileSlotWidget.get_trace_data: is there a trace, and the trace.
has_trace_data(slot) ==
    /\ slot.enabled_checkbox
    /\ slot.touchstone_file # NoFile
    /\ slot.param_combo.currentText # <<>>
    /\ slot.legend_edit.text # <<>>

get_trace_data(slot, slot_id) ==
    [touchstone_file |-> slot.touchstone_file,
     param_name      |-> slot.param_combo.currentText,
     legend_name     |-> slot.legend_edit.text,
     slot_id         |-> slot_id,
     color           |-> ""]

\* The palette of MainWindow.update_plot.
colors == <<"#1f77b4", "#ff7f0e", "#2ca02c", "#d62728", "#9467bd",
            "#8c564b", "#e377c2", "#7f7f7f", "#bcbd22", "#17becf">>

\* The loop of MainWindow.update_plot over the first n widgets: the trace of
\* widget i (0-based) gets colors[i % len(colors)].
RECURSIVE collect_traces(_, _)
collect_traces(file_slots_, n) ==
    IF n = 0 THEN <<>>
    ELSE LET i == n - 1
             before == collect_traces(file_slots_, n - 1)
         IN  IF has_trace_data(file_slots_[i])
             THEN Append(before,
                         [get_trace_data(file_slots_[i], i) EXCEPT
                            !.color = colors[(i % Len(colors)) + 1]])
             ELSE before

\* PlotControlsWidget.get_plot_type(): the selector shows its first item.
get_plot_type == PlotTypeItems[1]

\* The record m after plot_engine.plot(plot_type, traces) gave r.
after_plot(m, plot_type, r) ==
    [m EXCEPT !.ax = r.ax, !.last_traces = m.traces, !.plot_call = plot_type,
              !.plot_log = [calls |-> r.calls, printed |-> r.printed,
                            drawn |-> r.drawn, raised |-> r.raised],
              !.raised = r.raised]

\* MainWindow.update_plot once self.traces is collected.
render_traces(m) ==
    CHOOSE out \in {after_plot(m, get_plot_type, r) :
                      r \in {plot(plot_config, get_plot_type, m.traces)}} : TRUE

\* MainWindow.update_plot
MainWindow_update_plot(m) ==
    IF m.raised # "" THEN m
    ELSE CHOOSE out \in
           {render_traces(c) :
              c \in {[m EXCEPT !.traces = collect_traces(m.file_slots, SlotCount)]}} :
           TRUE

\* MainWindow.on_file_loaded: the FileManager parses the file again, the
\* plot is redrawn; any exception of the two becomes a message box.
MainWindow_on_file_loaded(m, slot_id, filepath) ==
    IF m.raised # "" THEN m
    ELSE LET r == FileManager_load_file(m.file_manager, slot_id, filepath)
             critical == <<"critical", "Error", "Failed to load file">>
         IN  IF ~r.ok THEN [m EXCEPT !.messages = Append(@, critical)]
             ELSE CHOOSE out \in
                    {IF p.raised # ""
                     THEN [p EXCEPT !.raised = "", !.messages = Append(@, critical)]
                     ELSE [p EXCEPT !.status_bar = <<"Loaded file", filepath>>] :
                       p \in {MainWindow_update_plot(
                                [m EXCEPT !.file_manager = r.files])}} : TRUE

\* on_file_removed that leaves the FileManager as it is.
MainWindow_on_file_removed_kept(m, slot_id) ==
    IF m.raised # "" THEN m
    ELSE CHOOSE out \in
           {IF p.raised # "" THEN p ELSE [p EXCEPT !.status_bar = <<"File removed">>] :
              p \in {MainWindow_update_plot(m)}} : TRUE

\* MainWindow.on_file_removed
MainWindow_on_file_removed(m, slot_id) ==
    IF m.raised # "" THEN m
    ELSE CHOOSE out \in
           {IF p.raised # "" THEN p ELSE [p EXCEPT !.status_bar = <<"File removed">>] :
              p \in {MainWindow_update_plot(
                       [m EXCEPT !.file_manager =
                                   FileManager_remove_file(@, slot_id)])}} : TRUE

\* FileSlotWidget.load_file, lines 114-127: the fields, the label and the
\* buttons, then the combo box is cleared and filled.  Filling an empty
\* combo box selects its first item: currentTextChanged reaches
\* on_param_changed and, through param_changed, MainWindow.update_plot.
load_file_fill(m, slot_id, filepath, touchstone_file) ==
    LET params == touchstone_file.s_params
        first == IF params = <<>> THEN <<>> ELSE params[1]
        filled == [m EXCEPT
                     !.file_slots[slot_id].touchstone_file = touchstone_file,
                     !.file_slots[slot_id].filepath = filepath,
                     !.file_slots[slot_id].file_label = <<filepath>>,
                     !.file_slots[slot_id].browse_button = "Change",
                     !.file_slots[slot_id].remove_button = TRUE,
                     !.file_slots[slot_id].available_params = params,
                     !.file_slots[slot_id].param_combo.items = params,
                     !.file_slots[slot_id].param_combo.currentText = first]
    IN  IF first # <<>> THEN MainWindow_update_plot(filled) ELSE filled

\* Lines 130-137: the default legend (textChanged reaches on_legend_changed
\* when the text changes and is not empty), then the controls are enabled.
load_file_legend(m, slot_id) ==
    LET slot == m.file_slots[slot_id]
        named == [m EXCEPT
                    !.file_slots[slot_id].legend_edit.text =
                       IF slot.available_params # <<>>
                       THEN slot.available_params[1] ELSE @,
                    !.file_slots[slot_id].enabled = TRUE,
                    !.file_slots[slot_id].param_combo.enabled = TRUE,
                    !.file_slots[slot_id].legend_edit.enabled = TRUE]
        text == named.file_slots[slot_id].legend_edit.text
    IN  IF m.raised # "" THEN m
        ELSE IF text # slot.legend_edit.text /\ text # <<>>
        THEN MainWindow_update_plot(named)
        ELSE named

\* Line 141: enabled_checkbox.setChecked(True); stateChanged reaches
\* MainWindow.on_enabled_changed when the box was not checked.
load_file_check(m, slot_id) ==
    IF m.raised # "" THEN m
    ELSE IF m.file_slots[slot_id].enabled_checkbox THEN m
    ELSE MainWindow_update_plot(
           [m EXCEPT !.file_slots[slot_id].enabled_checkbox = TRUE])

\* FileSlotWidget.load_file(filepath): the object is constructed first; if
\* that raises nothing has been assigned and a warning box is shown.
FileSlotWidget_load_file(m, slot_id, filepath) ==
    LET r == load_file(filepath)
    IN  IF ~r.ok
        THEN [m EXCEPT !.messages =
                Append(@, <<"warning", "Error", "Failed to load file">>)]
        ELSE CHOOSE out \in
               {load_file_check(m3, slot_id) :
                  m3 \in {MainWindow_on_file_loaded(m2, slot_id, filepath) :
                    m2 \in {load_file_legend(m1, slot_id) :
                      m1 \in {load_file_fill(m, slot_id, filepath, r.obj)}}}} : TRUE

\* FileSlotWidget.browse_file once the file dialog has returned filepath.
FileSlotWidget_browse_file(m, slot_id, filepath) ==
    IF filepath = EmptyPath THEN m ELSE FileSlotWidget_load_file(m, slot_id, filepath)

\* FileSlotWidget.remove_file up to the check box: un-checking a checked
\* box reaches MainWindow.on_enabled_changed.
remove_file_reset(m, slot_id) ==
    LET reset == [m EXCEPT !.file_slots[slot_id] = FileSlotWidget_init]
    IN  IF m.raised # "" THEN m
        ELSE IF m.file_slots[slot_id].enabled_checkbox
        THEN MainWindow_update_plot(reset)
        ELSE reset

\* FileSlotWidget.remove_file()
FileSlotWidget_remove_file(m, slot_id) ==
    CHOOSE out \in {MainWindow_on_file_removed(m1, slot_id) :
                      m1 \in {remove_file_reset(m, slot_id)}} : TRUE

\* The user picks another item of the parameter combo box.
FileSlotWidget_select_param(m, slot_id, param_name) ==
    LET picked == [m EXCEPT !.file_slots[slot_id].param_combo.currentText = param_name]
    IN  IF param_name # <<>> /\ m.file_slots[slot_id].touchstone_file # NoFile
        THEN MainWindow_update_plot(picked)
        ELSE picked

\* The user gives the legend field another text: on_legend_changed emits
\* legend_changed for a text that is not empty.
FileSlotWidget_edit_legend(m, slot_id, text) ==
    LET edited == [m EXCEPT !.file_slots[slot_id].legend_edit.text = text]
    IN  IF text # <<>> /\ m.file_slots[slot_id].touchstone_file # NoFile
        THEN MainWindow_update_plot(edited)
        ELSE edited

\* The user clicks the Enable check box.
FileSlotWidget_toggle_enabled(m, slot_id) ==
    MainWindow_update_plot([m EXCEPT !.file_slots[slot_id].enabled_checkbox = ~@])

\* for slot in self.file_slots: slot.remove_file(), the first n widgets.
RECURSIVE MainWindow_remove_range(_, _)
MainWindow_remove_range(m, n) ==
    IF n = 0 THEN m
    ELSE CHOOSE out \in {FileSlotWidget_remove_file(m1, n - 1) :
                           m1 \in {MainWindow_remove_range(m, n - 1)}} : TRUE

\* MainWindow.clear_all_files() once the question box has returned reply.
MainWindow_clear_all_files(m, reply) ==
    IF reply # "Yes" THEN m
    ELSE CHOOSE out \in
           {IF p.raised # "" THEN p
            ELSE [p EXCEPT !.status_bar = <<"All files cleared">>] :
              p \in {MainWindow_update_plot(
                       [m1 EXCEPT !.file_manager = FileManager_clear_all(@)]) :
                m1 \in {MainWindow_remove_range(m, SlotCount)}}} : TRUE

\* The loop of open_files over the first n paths of filepaths[:4].
RECURSIVE open_files_loop(_, _, _)
open_files_loop(m, filepaths, n) ==
    IF n = 0 THEN m
    ELSE CHOOSE out \in {FileSlotWidget_load_file(m1, n - 1, filepaths[n]) :
                           m1 \in {open_files_loop(m, filepaths, n - 1)}} : TRUE

\* MainWindow.open_files() once the file dialog has returned filepaths.
MainWindow_open_files(m, filepaths) ==
    IF filepaths = <<>> THEN m
    ELSE CHOOSE out \in
           {IF p.raised # "" THEN p
            ELSE [p EXCEPT !.status_bar = <<"Loaded", Len(filepaths), "files">>] :
              p \in {open_files_loop(m, filepaths,
                                     IF Len(filepaths) < SlotCount
                                     THEN Len(filepaths) ELSE SlotCount)}} : TRUE

\* MainWindow.__init__ and init_ui
MainWindow_init ==
    [file_manager |-> EmptyDict,
     file_slots   |-> [s \in SlotIds |-> FileSlotWidget_init],
     traces       |-> <<>>]

(***************************************************************************)
(* PlotControlsWidget of plot_controls.py, the controls of a PlotWindow.   *)
(* A spin box holds a whole number here.                                   *)
(***************************************************************************)
\* PlotControlsWidget.init_ui: what the controls show at first.
PlotControlsWidget_init ==
    [plot_type |-> PlotTypeItems[1], title |-> "S-Parameter Plot",
     xlabel |-> "Frequency (GHz)", ylabel |-> "Magnitude (dB)", grid |-> TRUE,
     legend_loc |-> "best", xlim_auto |-> TRUE, xmin |-> 0, xmax |-> 0,
     ylim_auto |-> TRUE, ymin |-> 0, ymax |-> 0]

\* update_config emitting the spin box values whatever the auto boxes show.
PlotControlsWidget_update_config_explicit(c) ==
    [title |-> c.title, xlabel |-> c.xlabel, ylabel |-> c.ylabel, grid |-> c.grid,
     legend_loc |-> c.legend_loc, xlim_auto |-> c.xlim_auto,
     ylim_auto |-> c.ylim_auto,
     xlim |-> <<Num(c.xmin), Num(c.xmax)>>,
     ylim |-> <<Num(c.ymin), Num(c.ymax)>>]

\* PlotControlsWidget.update_config: the dict given to config_changed.
PlotControlsWidget_update_config(c) ==
    [title |-> c.title, xlabel |-> c.xlabel, ylabel |-> c.ylabel, grid |-> c.grid,
     legend_loc |-> c.legend_loc, xlim_auto |-> c.xlim_auto,
     ylim_auto |-> c.ylim_auto,
     xlim |-> IF ~c.xlim_auto THEN <<Num(c.xmin), Num(c.xmax)>> ELSE <<None, None>>,
     ylim |-> IF ~c.ylim_auto THEN <<Num(c.ymin), Num(c.ymax)>> ELSE <<None, None>>]

\* dict.update(config)
DictUpdate(old, new) ==
    [k \in DOMAIN old \cup DOMAIN new |-> IF k \in DOMAIN new THEN new[k] ELSE old[k]]

(***************************************************************************)
(* PlotWindow.  Its handlers work on a record p of the window: whether it  *)
(* is shown, its controls, what its PlotEngine holds, and what the handler *)
(* shows and does: the text put on the status bar (<<>> if none), the      *)
(* message boxes, the calls of save_plot, and the exception that left a    *)
(* slot function uncaught (the rest of the handler does not run then).     *)
(***************************************************************************)
\* PlotWindow.__init__ and init_ui, then show().
PlotWindow_init ==
    [open |-> TRUE, controls |-> PlotControlsWidget_init,
     plot_config |-> InitialPlotConfig, ax |-> NoAxes, last_traces |-> <<>>,
     plot_call |-> "", plot_log |-> NoLog,
     status_bar |-> <<"Ready - Load files from File Manager">>,
     messages |-> <<>>, saved |-> <<>>, raised |-> ""]

\* The record p after plot_engine.plot(plot_type, traces) gave r.
plotted(p, plot_type, traces, r) ==
    [p EXCEPT !.ax = r.ax, !.last_traces = traces, !.plot_call = plot_type,
              !.plot_log = [calls |-> r.calls, printed |-> r.printed,
                            drawn |-> r.drawn, raised |-> r.raised],
              !.raised = r.raised]

\* self.plot_engine.plot(plot_type, traces)
engine_plot(p, plot_type, traces) ==
    CHOOSE out \in {plotted(p, plot_type, traces, r) :
                      r \in {plot(p.plot_config, plot_type, traces)}} : TRUE

\* PlotWindow.update_plot(traces): plot_type is None, the controls' type is
\* taken.
PlotWindow_update_plot(p, traces) ==
    IF p.raised # "" THEN p
    ELSE CHOOSE out \in
           {IF q.raised # "" THEN q
            ELSE [q EXCEPT !.status_bar =
                    IF traces # <<>>
                    THEN <<"Plot updated with", Len(traces), "traces">>
                    ELSE <<"No traces to plot">>] :
              q \in {engine_plot(p, p.controls.plot_type, traces)}} : TRUE

\* PlotWindow.on_plot_type_changed(plot_type)
PlotWindow_on_plot_type_changed(p, plot_type) ==
    IF p.raised # "" THEN p ELSE engine_plot(p, plot_type, p.last_traces)

\* on_config_changed that plots no traces.
PlotWindow_on_config_changed_emptied(p, config) ==
    IF p.raised # "" THEN p
    ELSE CHOOSE out \in
           {engine_plot(q, q.controls.plot_type, <<>>) :
              q \in {[p EXCEPT !.plot_config = DictUpdate(@, config)]}} : TRUE

\* PlotWindow.on_config_changed(config)
PlotWindow_on_config_changed(p, config) ==
    IF p.raised # "" THEN p
    ELSE CHOOSE out \in
           {engine_plot(q, q.controls.plot_type, q.last_traces) :
              q \in {[p EXCEPT !.plot_config = DictUpdate(@, config)]}} : TRUE

\* self.config_changed.emit(config) of the controls in the window p.
emit_config(p) ==
    PlotWindow_on_config_changed(p, PlotControlsWidget_update_config(p.controls))

\* The slots a changed control reaches, in connection order.  The plot type:
\* on_plot_type_changed emits plot_type_changed, then update_config.  An auto
\* check box: update_config, then toggle_*lim_controls, which calls
\* update_config again.  Any other control: update_config.
control_changed(q, field, value) ==
    IF field = "plot_type"
    THEN CHOOSE out \in
           {emit_config(a) : a \in {PlotWindow_on_plot_type_changed(q, value)}} : TRUE
    ELSE IF field \in {"xlim_auto", "ylim_auto"}
    THEN CHOOSE out \in {emit_config(a) : a \in {emit_config(q)}} : TRUE
    ELSE emit_config(q)

\* The user gives a control another value.
PlotControlsWidget_edit(p, field, value) ==
    CHOOSE out \in
      {control_changed(q, field, value) :
         q \in {[p EXCEPT !.controls = [@ EXCEPT ![field] = value]]}} : TRUE

\* PlotEngine.save_plot(filepath, dpi): savefig raises on a path that cannot
\* be written, the exception is printed and raised again.
save_plot(p, filepath, dpi, writable) ==
    [p EXCEPT !.saved = Append(@, [filepath |-> filepath, dpi |-> dpi]),
              !.raised = IF writable THEN "" ELSE "OSError"]

\* PlotWindow.export_png / export_pdf / export_svg once the save dialog has
\* returned filepath ('' if cancelled).
PlotWindow_export(p, format, filepath, writable) ==
    IF filepath = "" THEN p
    ELSE CHOOSE out \in
           {IF q.raised # ""
            THEN [q EXCEPT !.raised = "",
                           !.messages = Append(@, <<"critical", "Error",
                                                    "Failed to save plot">>)]
            ELSE [q EXCEPT !.status_bar = <<"Plot saved as", format, filepath>>,
                           !.messages = Append(@, <<"information", "Success",
                                                    filepath>>)] :
              q \in {save_plot(p, filepath, 300, writable)}} : TRUE

(***************************************************************************)
(* PlotControlsWidget of ui_components.py, the controls of MainWindow.     *)
(***************************************************************************)
\* save_png / save_pdf / save_svg, the slots of the three Save buttons: the
\* save dialog returns filepath; the pair the slot returns goes back to the
\* clicked signal, which drops it.
PlotControlsWidget_save(m, format, filepath) == m

(***************************************************************************)
(* FileManagerWindow.open_plot_window                                      *)
(***************************************************************************)
\* The inner loop of open_plot_window over the first n selections of a slot;
\* trace_count traces were appended before the slot.
RECURSIVE slot_traces_restarted(_, _, _, _)
slot_traces_restarted(touchstone_file, selections, n, trace_count) ==
    IF n = 0 THEN <<>>
    ELSE Append(slot_traces_restarted(touchstone_file, selections, n - 1, trace_count),
                [touchstone_file |-> touchstone_file,
                 param_name |-> selections[n][1],
                 legend_name |-> selections[n][2],
                 color |-> colors[((n - 1) % Len(colors)) + 1]])

RECURSIVE slot_traces(_, _, _, _)
slot_traces(touchstone_file, selections, n, trace_count) ==
    IF n = 0 THEN <<>>
    ELSE Append(slot_traces(touchstone_file, selections, n - 1, trace_count),
                [touchstone_file |-> touchstone_file,
                 param_name |-> selections[n][1],
                 legend_name |-> selections[n][2],
                 color |-> colors[((trace_count + n - 1) % Len(colors)) + 1]])

\* The outer loop over the first n items of selected_s_params.
RECURSIVE selected_traces(_, _)
selected_traces(w, n) ==
    IF n = 0 THEN <<>>
    ELSE LET before == selected_traces(w, n - 1)
             slot_id == w.selected_s_params[n][1]
             selections == w.selected_s_params[n][2]
         IN  IF KeyIn(w.loaded_files, slot_id) /\ selections # <<>>
             THEN before \o slot_traces(w.loaded_files[slot_id], selections,
                                        Len(selections), Len(before))
             ELSE before

\* open_plot_window with its traces collected: a PlotWindow is created unless
\* one is shown, and is given the traces.
show_traces(w, p, traces) ==
    CHOOSE out \in
      {[w |-> IF q.raised # "" THEN w
              ELSE [w EXCEPT !.status_label =
                      <<"Plot window updated with", Len(traces), "traces">>],
        p |-> q] :
         q \in {PlotWindow_update_plot(IF p.open THEN p ELSE PlotWindow_init,
                                       traces)}} : TRUE

\* FileManagerWindow.open_plot_window: the window w and its plot window p.
FileManagerWindow_open_plot_window(w, p) ==
    CHOOSE out \in
      {IF traces = <<>>
       THEN [w |-> [w EXCEPT !.messages =
                      Append(@, <<"information", "No Data",
                                  "Please select S-parameters to plot first.">>)],
             p |-> p]
       ELSE show_traces(w, p, traces) :
         traces \in {selected_traces(w, Len(w.selected_s_params))}} : TRUE

(***************************************************************************)
(* FileSelectorDialog.  Its handlers work on a record d of the dialog: the *)
(* rows of files_table, loaded_files, file_counter, self.traces, its       *)
(* message boxes, and the record p of the PlotWindow that files_updated    *)
(* is connected to.  A row holds the file id of its first cell, its        *)
(* parameter, the text of its legend cell, its check box, and the number   *)
(* its Remove button passes to remove_row.                                 *)
(***************************************************************************)
\* FileSelectorDialog.__init__
FileSelectorDialog_init ==
    [files_table |-> <<>>, loaded_files |-> EmptyDict, file_counter |-> 0,
     traces |-> <<>>]

\* The loop of update_plot over the first n rows of the table.
RECURSIVE table_traces(_, _)
table_traces(d, n) ==
    IF n = 0 THEN <<>>
    ELSE LET row == n - 1
             before == table_traces(d, n - 1)
             item == d.files_table[n]
         IN  IF ~KeyIn(d.loaded_files, item.file_id) \/ ~item.checked THEN before
             ELSE Append(before,
                         [touchstone_file |-> d.loaded_files[item.file_id],
                          param_name |-> item.param,
                          legend_name |-> item.legend,
                          color |-> colors[(row % Len(colors)) + 1]])

\* FileSelectorDialog.update_plot: files_updated reaches
\* PlotWindow.update_plot.
FileSelectorDialog_update_plot(d) ==
    CHOOSE out \in
      {[d EXCEPT !.traces = traces, !.p = PlotWindow_update_plot(d.p, traces)] :
         traces \in {table_traces(d, Len(d.files_table))}} : TRUE

\* add_table_row: the lambda of the Remove button keeps the row count at
\* the time the row is added.
add_table_row(d, file_id, touchstone_file, param_name) ==
    [d EXCEPT !.files_table =
       Append(@, [file_id |-> file_id, param |-> param_name,
                  legend |-> param_name, checked |-> FALSE,
                  remove_row |-> Len(d.files_table)])]

\* for param in touchstone_file.s_params: the first n parameters.
RECURSIVE add_table_rows(_, _, _, _)
add_table_rows(d, file_id, touchstone_file, n) ==
    IF n = 0 THEN d
    ELSE CHOOSE out \in
           {add_table_row(b, file_id, touchstone_file, touchstone_file.s_params[n]) :
              b \in {add_table_rows(d, file_id, touchstone_file, n - 1)}} : TRUE

\* load_touchstone_file
load_touchstone_file(d, filepath) ==
    LET r == load_file(filepath)
    IN  IF ~r.ok
        THEN [d EXCEPT !.messages = Append(@, <<"warning", "Error",
                                                "Failed to load file">>)]
        ELSE [add_table_rows([d EXCEPT
                                !.file_counter = @ + 1,
                                !.loaded_files = ItemSet(@, d.file_counter, r.obj)],
                             d.file_counter, r.obj, Len(r.obj.s_params))
                EXCEPT !.messages = Append(@, <<"information", "Success",
                                                Len(r.obj.s_params), filepath>>)]

\* add_file once the file dialog has returned filepath.
FileSelectorDialog_add_file(d, filepath) ==
    IF filepath = EmptyPath THEN d ELSE load_touchstone_file(d, filepath)

\* add_multiple_files: the first n paths the dialog has returned.
RECURSIVE FileSelectorDialog_add_multiple_files(_, _, _)
FileSelectorDialog_add_multiple_files(d, filepaths, n) ==
    IF n = 0 THEN d
    ELSE CHOOSE out \in
           {load_touchstone_file(b, filepaths[n]) :
              b \in {FileSelectorDialog_add_multiple_files(d, filepaths, n - 1)}} :
           TRUE

\* QTableWidget.removeRow(row): nothing happens for a row the table has not.
removeRow(table, row) ==
    IF row < 0 \/ row >= Len(table) THEN table
    ELSE SubSeq(table, 1, row) \o SubSeq(table, row + 2, Len(table))

\* FileSelectorDialog.remove_row(row)
FileSelectorDialog_remove_row(d, row) ==
    CHOOSE out \in
      {FileSelectorDialog_update_plot(b) :
         b \in {[d EXCEPT !.files_table = removeRow(@, row)]}} : TRUE

\* The check box of the table row at index row is clicked: on_enabled_changed.
FileSelectorDialog_on_enabled_changed(d, row) ==
    CHOOSE out \in
      {FileSelectorDialog_update_plot(b) :
         b \in {[d EXCEPT !.files_table[row + 1].checked = ~@]}} : TRUE

\* The legend cell of the table row at index row is edited; no slot is
\* connected to the change.
edit_legend(d, row, text) == [d EXCEPT !.files_table[row + 1].legend = text]

\* clear_all_files once the question box has returned reply.
FileSelectorDialog_clear_all_files(d, reply) ==
    IF reply # "Yes" THEN d
    ELSE CHOOSE out \in
           {FileSelectorDialog_update_plot(b) :
              b \in {[d EXCEPT !.files_table = <<>>, !.loaded_files = EmptyDict,
                               !.traces = <<>>]}} : TRUE

\* No handler runs.  A handler is recorded with the slot or row and the
\* paths it was given, what the user did in its dialog, the file a save
\* dialog returned, the status text it set, its message boxes, its calls of
\* save_plot and the exception that left it.
NoHandler ==
    [op |-> "", slot |-> -1, paths |-> <<>>, edit |-> "", target |-> "",
     status |-> <<>>, messages |-> <<>>, saved |-> <<>>, raised |-> ""]

\* No PlotWindow is shown.
NoPlotWindow == [open |-> FALSE, controls |-> PlotControlsWidget_init]

AppIdleState ==
    /\ app = ""
    /\ files = EmptyDict
    /\ fmw = FileManagerWindow_init
    /\ mw = MainWindow_init
    /\ handler = NoHandler
    /\ pw = NoPlotWindow
    /\ fsd = FileSelectorDialog_init

(***************************************************************************)
(* The accessor on its own: a TouchstoneFile is constructed from a path    *)
(* and its methods are called with parameter names.                        *)
(***************************************************************************)
AccessorPaths ==
    {GoodPath(p, n) : p \in 1..MaxPorts, n \in 0..MaxPoints}
        \cup {GarbagePath, MissingPath}

\* The identifier the loader generates for the pair (i, j), 1-based.
ParamId(i, j) == <<"S">> \o Str(i) \o Str(j)

\* Parameter names a caller may pass to a network of nports ports: every
\* S<i><j> with i, j from 0 to one past the port count, and names that are
\* not of that shape.
AccessorParams(nports) ==
    {ParamId(i, j) : i \in 0..(nports + 1), j \in 0..(nports + 1)}
        \cup {<<"S", "1">>, <<"S">>, <<"T", "1", "1">>, <<"S", "x", "1">>}

NoCall == [op |-> "none", path |-> MissingPath, param |-> <<>>]

AccIdleState ==
    /\ tfile = NoFile
    /\ call = NoCall
    /\ ret = Raise("")

AccInit == AccIdleState /\ EngineIdleState /\ AppIdleState

\* No call is in progress: the caller is about to make its next call.
AccIdle == call.op \in {"none", "TouchstoneFile"}

\* tf = TouchstoneFile(path)
AccConstruct(path) ==
    LET r == load_file(path)
    IN  /\ AccIdle
        /\ call' = [op |-> "TouchstoneFile", path |-> path, param |-> <<>>]
        /\ IF r.ok
           THEN tfile' = r.obj /\ ret' = Return(<<>>, <<>>, <<>>)
           ELSE tfile' = tfile /\ ret' = Raise(r.err)
        /\ UNCHANGED <<engineVars, appVars>>

\* tf.<method>(param)
AccCall(method, param) ==
    /\ AccIdle
    /\ tfile # NoFile
    /\ call' = [op |-> method, path |-> tfile.filepath, param |-> param]
    /\ ret' = Invoke(method, tfile, param)
    /\ tfile' = tfile
    /\ UNCHANGED <<engineVars, appVars>>

\* The caller has taken the result (or caught the exception) and goes on
\* with the same object.
AccReturn ==
    /\ ~AccIdle
    /\ call' = NoCall
    /\ ret' = Raise("")
    /\ tfile' = tfile
    /\ UNCHANGED <<engineVars, appVars>>

AccNext ==
    \/ AccIdle /\ \E path \in AccessorPaths : AccConstruct(path)
    \/ /\ AccIdle
       /\ \E method \in Calculators :
            \E param \in AccessorParams(tfile.network.nports) :
              AccCall(method, param)
    \/ AccReturn

SpecAccessor == AccInit /\ [][AccNext]_vars

(***************************************************************************)
(* The calculators on measured series: a TouchstoneFile has been           *)
(* constructed from a file that holds a series of samples, and its         *)
(* calculators are called for a reflection and a transmission parameter.   *)
(***************************************************************************)
\* Largest number of samples of a measured series.
MaxSamples == 3

\* The samples series are made of: one on each axis and diagonal, with
\* magnitudes from 0.4243 to 1.1314 (0.9998, 0.9999 and 1 among them), and 0.
SampleValues ==
    {<<0, 0>>, <<5000, 0>>, <<3000, 3000>>, <<0, 9998>>, <<-7071, 7071>>,
     <<-9999, 0>>, <<-5000, -5000>>, <<0, -10000>>, <<8000, -8000>>}

SampleSeries == UNION {[1..n -> SampleValues] : n \in 0..MaxSamples}

NumericParams == {ParamId(1, 1), ParamId(2, 1)}

NumericInit ==
    /\ \E samples \in SampleSeries : tfile = load_file(MeasuredPath(samples)).obj
    /\ call = NoCall
    /\ ret = Raise("")
    /\ EngineIdleState /\ AppIdleState

NumericNext ==
    \/ \E method \in Calculators, param \in NumericParams : AccCall(method, param)
    \/ AccReturn

SpecNumeric == NumericInit /\ [][NumericNext]_vars

(***************************************************************************)
(* The plot engine on its own: plot() is called with a plot type and a     *)
(* list of traces, update_config() with a dict.                            *)
(***************************************************************************)
\* Largest number of traces in a list given to plot().
MaxTraces == 2

Trace(path, param, legend, color) ==
    [touchstone_file |-> load_file(path).obj, param_name |-> param,
     legend_name |-> legend, color |-> color]

\* What trace lists are made of: trace "a" has a colour and a series without
\* points, trace "b" names a parameter its 1-port file does not have, trace
\* "c" has no colour and a series of one point.
EngineTraces ==
    {Trace(GoodPath(2, 0), <<"S", "1", "2">>, <<"a">>, "#1f77b4"),
     Trace(GoodPath(1, 2), <<"S", "2", "1">>, <<"b">>, ""),
     Trace(GoodPath(2, 1), <<"S", "2", "1">>, <<"c">>, "")}

EngineTraceLists == UNION {[1..n -> EngineTraces] : n \in 0..MaxTraces}

\* The plot types a caller passes: the eight of the selector and one that
\* no branch recognises.
EnginePlotTypes == {PlotTypeItems[n] : n \in 1..Len(PlotTypeItems)} \cup {"Polar"}

\* Dicts passed to update_config(): what the controls emit (all nine keys)
\* with automatic or explicit limits.
EngineConfigs ==
    {InitialPlotConfig,
     [title |-> "T", xlabel |-> "X", ylabel |-> "Y", grid |-> FALSE,
      legend_loc |-> "upper right", xlim_auto |-> FALSE, ylim_auto |-> TRUE,
      xlim |-> <<Num(0), Num(5)>>, ylim |-> <<None, None>>],
     [title |-> "", xlabel |-> "Frequency (GHz)", ylabel |-> "", grid |-> TRUE,
      legend_loc |-> "center", xlim_auto |-> TRUE, ylim_auto |-> FALSE,
      xlim |-> <<None, None>>, ylim |-> <<Num(-40), Num(0)>>]}

\* PlotEngine.update_config(config)
update_config(config) ==
    /\ plot_config' = DictUpdate(plot_config, config)
    /\ UNCHANGED <<ax, last_traces, plot_call, plot_log>>

\* PlotEngine.plot(plot_type, traces): clear_plot(), last_traces, then the
\* plot type's drawing function and canvas.draw().
EnginePlot(plot_type, traces) ==
    \E r \in {plot(plot_config, plot_type, traces)} :
        /\ last_traces' = traces
        /\ ax' = r.ax
        /\ plot_call' = plot_type
        /\ plot_log' = [calls |-> r.calls, printed |-> r.printed,
                        drawn |-> r.drawn, raised |-> r.raised]
        /\ UNCHANGED plot_config

EngineInit == AccIdleState /\ EngineIdleState /\ AppIdleState

EngineNext ==
    \/ \E config \in EngineConfigs :
         update_config(config) /\ UNCHANGED <<accVars, appVars>>
    \/ \E plot_type \in EnginePlotTypes, traces \in EngineTraceLists :
         EnginePlot(plot_type, traces) /\ UNCHANGED <<accVars, appVars>>

SpecEngine == EngineInit /\ [][EngineNext]_vars

(***************************************************************************)
(* The three entry points, driven by their callers and users.  app names   *)
(* the one that runs.  handler is the call or the handler that has just    *)
(* run, with the slot and the paths of a load, the status text and the     *)
(* message boxes it showed and the exception that left it; it is NoHandler *)
(* once the boxes are dismissed and the event loop waits for the next      *)
(* event.                                                                  *)
(***************************************************************************)
Apps == {"FileManager", "FileManagerWindow", "MainWindow"}

\* Files on disk the user picks from: two Touchstone files (one port, two
\* ports), a file the parser rejects, and a path without a file.
AppPaths == {GoodPath(1, 1), GoodPath(2, 1), GarbagePath, MissingPath}

\* Lists the multi-file dialog of MainWindow.open_files returns, () for a
\* cancelled dialog.
OpenPaths == {GoodPath(1, 1), GarbagePath}
OpenLists == UNION {[1..n -> OpenPaths] : n \in 0..UsedSlots}

WinInit ==
    /\ AccIdleState /\ EngineIdleState
    /\ app \in Apps
    /\ files = EmptyDict
    /\ fmw = FileManagerWindow_init
    /\ mw = MainWindow_init
    /\ handler = NoHandler
    /\ pw = NoPlotWindow
    /\ fsd = FileSelectorDialog_init

Handled(op, slot_id, paths, status, messages, raised) ==
    [op |-> op, slot |-> slot_id, paths |-> paths, edit |-> "", target |-> "",
     status |-> status, messages |-> messages, saved |-> <<>>, raised |-> raised]

WinIdle == handler = NoHandler

\* file_manager.load_file(slot_id, filepath) called on a FileManager.
ManagerLoad(slot_id, filepath) ==
    /\ app = "FileManager" /\ WinIdle
    /\ \E r \in {FileManager_load_file(files, slot_id, filepath)} :
         /\ files' = r.files
         /\ handler' = Handled("load_file", slot_id, <<filepath>>, <<>>, <<>>, r.err)
    /\ UNCHANGED <<app, fmw, mw, accVars, engineVars, plotVars>>

\* file_manager.remove_file(slot_id)
ManagerRemove(slot_id) ==
    /\ app = "FileManager" /\ WinIdle
    /\ files' = FileManager_remove_file(files, slot_id)
    /\ handler' = Handled("remove_file", slot_id, <<>>, <<>>, <<>>, "")
    /\ UNCHANGED <<app, fmw, mw, accVars, engineVars, plotVars>>

\* file_manager.clear_all()
ManagerClearAll ==
    /\ app = "FileManager" /\ WinIdle
    /\ files' = FileManager_clear_all(files)
    /\ handler' = Handled("clear_all", -1, <<>>, <<>>, <<>>, "")
    /\ UNCHANGED <<app, fmw, mw, accVars, engineVars, plotVars>>

\* The window as a handler finds it.
FmwState ==
    [loaded_files |-> fmw.loaded_files, selected_s_params |-> fmw.selected_s_params,
     file_slots |-> fmw.file_slots, status_label |-> <<>>, messages |-> <<>>]

\* The window as a handler leaves it; edit is what the user did in the
\* dialog the handler opened ("" for a handler without one).
FmwDone(w, op, slot_id, paths, edit) ==
    /\ fmw' = [loaded_files |-> w.loaded_files,
               selected_s_params |-> w.selected_s_params,
               file_slots |-> w.file_slots]
    /\ handler' = [Handled(op, slot_id, paths, w.status_label, w.messages, "")
                     EXCEPT !.edit = edit]
    /\ UNCHANGED <<app, files, mw, accVars, engineVars, plotVars>>

\* Load File of a slot; the file dialog returns filepath ('' if cancelled).
FmwLoad(slot_id, filepath) ==
    /\ app = "FileManagerWindow" /\ WinIdle
    /\ \E w \in {FmwState} :
         \E out \in {FileManagerWindow_load_file(w, slot_id, filepath)} :
           FmwDone(out, "load_file", slot_id, <<filepath>>, "")

\* Choose S-Parameters of a slot (the button is enabled).
FmwChoose(slot_id, edit, accepted) ==
    /\ app = "FileManagerWindow" /\ WinIdle
    /\ fmw.file_slots[slot_id].choose_button
    /\ \E w \in {FmwState} :
         \E out \in {FileManagerWindow_choose_s_params(w, slot_id, edit, accepted)} :
           FmwDone(out, "choose_s_params", slot_id, <<>>, edit)

\* Remove File of a slot (the button is enabled).
FmwRemove(slot_id) ==
    /\ app = "FileManagerWindow" /\ WinIdle
    /\ fmw.file_slots[slot_id].remove_button
    /\ \E w \in {FmwState} :
         \E out \in {FileManagerWindow_remove_file(w, slot_id)} :
           FmwDone(out, "remove_file", slot_id, <<>>, "")

\* Clear All Files; the question box returns reply.
FmwClearAll(reply) ==
    /\ app = "FileManagerWindow" /\ WinIdle
    /\ \E w \in {FmwState} :
         \E out \in {FileManagerWindow_clear_all_files(w, reply)} :
           FmwDone(out, "clear_all_files", -1, <<>>, "")

\* The main window as a handler finds it, with what its PlotEngine holds.
MwState ==
    [file_manager |-> mw.file_manager, file_slots |-> mw.file_slots,
     traces |-> mw.traces, status_bar |-> <<>>, messages |-> <<>>,
     raised |-> "", ax |-> ax, last_traces |-> last_traces,
     plot_call |-> plot_call, plot_log |-> plot_log]

\* The main window as a handler leaves it.
MwDone(m, op, slot_id, paths) ==
    /\ mw' = [file_manager |-> m.file_manager, file_slots |-> m.file_slots,
              traces |-> m.traces]
    /\ ax' = m.ax
    /\ last_traces' = m.last_traces
    /\ plot_call' = m.plot_call
    /\ plot_log' = m.plot_log
    /\ handler' = Handled(op, slot_id, paths, m.status_bar, m.messages, m.raised)
    /\ UNCHANGED <<app, files, fmw, plot_config, accVars, plotVars>>

\* File > Open Files...
MwOpenFiles(filepaths) ==
    /\ app = "MainWindow" /\ WinIdle
    /\ \E m \in {MwState} :
         \E out \in {MainWindow_open_files(m, filepaths)} :
           MwDone(out, "open_files", -1, filepaths)

\* Browse / Change of a widget (the widget is enabled).
MwBrowse(slot_id, filepath) ==
    /\ app = "MainWindow" /\ WinIdle
    /\ mw.file_slots[slot_id].enabled
    /\ \E m \in {MwState} :
         \E out \in {FileSlotWidget_browse_file(m, slot_id, filepath)} :
           MwDone(out, "browse_file", slot_id, <<filepath>>)

\* Remove of a widget (the widget and the button are enabled).
MwRemove(slot_id) ==
    /\ app = "MainWindow" /\ WinIdle
    /\ mw.file_slots[slot_id].enabled
    /\ mw.file_slots[slot_id].remove_button
    /\ \E m \in {MwState} :
         \E out \in {FileSlotWidget_remove_file(m, slot_id)} :
           MwDone(out, "remove_file", slot_id, <<>>)

\* Another item of a widget's parameter combo box.
MwSelectParam(slot_id, param_name) ==
    /\ app = "MainWindow" /\ WinIdle
    /\ mw.file_slots[slot_id].enabled
    /\ mw.file_slots[slot_id].param_combo.enabled
    /\ InList(param_name, mw.file_slots[slot_id].param_combo.items)
    /\ param_name # mw.file_slots[slot_id].param_combo.currentText
    /\ \E m \in {MwState} :
         \E out \in {FileSlotWidget_select_param(m, slot_id, param_name)} :
           MwDone(out, "on_param_changed", slot_id, <<>>)

\* The Enable check box of a widget.
MwToggle(slot_id) ==
    /\ app = "MainWindow" /\ WinIdle
    /\ mw.file_slots[slot_id].enabled
    /\ \E m \in {MwState} :
         \E out \in {FileSlotWidget_toggle_enabled(m, slot_id)} :
           MwDone(out, "on_enabled_changed", slot_id, <<>>)

\* File > New; the question box returns reply.
MwClearAll(reply) ==
    /\ app = "MainWindow" /\ WinIdle
    /\ \E m \in {MwState} :
         \E out \in {MainWindow_clear_all_files(m, reply)} :
           MwDone(out, "clear_all_files", -1, <<>>)

\* The message boxes are dismissed; the event loop (or the caller of the
\* FileManager) goes on to the next event.
WinReturn ==
    /\ ~WinIdle
    /\ handler' = NoHandler
    /\ UNCHANGED <<app, files, fmw, mw, accVars, engineVars, plotVars>>

WinNext ==
    \/ \E slot_id \in ActedSlots, filepath \in AppPaths : ManagerLoad(slot_id, filepath)
    \/ \E slot_id \in ActedSlots : ManagerRemove(slot_id)
    \/ ManagerClearAll
    \/ \E slot_id \in ActedSlots, filepath \in AppPaths \cup {EmptyPath} :
         FmwLoad(slot_id, filepath)
    \/ \E slot_id \in ActedSlots, edit \in DialogEdits, accepted \in BOOLEAN :
         FmwChoose(slot_id, edit, accepted)
    \/ \E slot_id \in ActedSlots : FmwRemove(slot_id)
    \/ \E reply \in {"Yes", "No"} : FmwClearAll(reply)
    \/ \E filepaths \in OpenLists : MwOpenFiles(filepaths)
    \/ \E slot_id \in ActedSlots, filepath \in AppPaths \cup {EmptyPath} :
         MwBrowse(slot_id, filepath)
    \/ \E slot_id \in ActedSlots : MwRemove(slot_id)
    \/ \E slot_id \in ActedSlots :
         \E param_name \in {ParamId(i, j) : i \in 1..2, j \in 1..2} :
           MwSelectParam(slot_id, param_name)
    \/ \E slot_id \in ActedSlots : MwToggle(slot_id)
    \/ \E reply \in {"Yes", "No"} : MwClearAll(reply)
    \/ WinReturn

SpecWindows == WinInit /\ [][WinNext]_vars

(***************************************************************************)
(* The plot windows: FileManagerWindow with the PlotWindow it opens        *)
(* (main_improved.py), FileSelectorDialog with the PlotWindow connected to *)
(* it (main_separate.py), and the legend fields and Save buttons of        *)
(* MainWindow (main.py).  plot_config, ax, last_traces, plot_call and      *)
(* plot_log are those of the PlotEngine of the PlotWindow, or of           *)
(* MainWindow.                                                             *)
(***************************************************************************)
PlotApps == {"FileManagerWindow", "FileSelectorDialog", "MainWindow"}

\* The FileSelectorDialog loads at most MaxFiles files.
MaxFiles == 3

\* Files the user picks from: networks of three ports and of one port and a
\* file the parser rejects.
ManagerPlotPaths == {GoodPath(3, 1)}
SelectorPaths == {GoodPath(1, 1), GarbagePath}
SelectorLists == UNION {[1..n -> SelectorPaths] : n \in 0..2}

\* What the user sets the controls of the PlotWindow to.
ControlEdits ==
    {<<"plot_type", PlotTypeItems[1]>>, <<"plot_type", "Smith Chart">>,
     <<"xlim_auto", TRUE>>, <<"xlim_auto", FALSE>>, <<"xmin", 1>>}

\* Files a save dialog returns: '' if cancelled, a file that can be written
\* and one that cannot.
SaveTargets == {"", "plot.out", "/readonly/plot.out"}
Writable(filepath) == filepath # "/readonly/plot.out"

PlotInit ==
    /\ AccIdleState
    /\ app \in PlotApps
    /\ files = EmptyDict
    /\ fmw = FileManagerWindow_init
    /\ mw = MainWindow_init
    /\ handler = NoHandler
    /\ fsd = FileSelectorDialog_init
    /\ \E p \in {IF app = "FileSelectorDialog"
                 THEN PlotWindow_init
                 ELSE [PlotWindow_init EXCEPT !.open = FALSE]} :
         /\ pw = [open |-> p.open, controls |-> p.controls]
         /\ plot_config = p.plot_config
         /\ ax = p.ax
         /\ last_traces = p.last_traces
         /\ plot_call = p.plot_call
         /\ plot_log = p.plot_log

\* The PlotWindow as a handler finds it.
PlotState ==
    [open |-> pw.open, controls |-> pw.controls, plot_config |-> plot_config,
     ax |-> ax, last_traces |-> last_traces, plot_call |-> plot_call,
     plot_log |-> plot_log, status_bar |-> <<>>, messages |-> <<>>,
     saved |-> <<>>, raised |-> ""]

\* The PlotWindow as a handler leaves it.
PlotDone(p) ==
    /\ pw' = [open |-> p.open, controls |-> p.controls]
    /\ plot_config' = p.plot_config
    /\ ax' = p.ax
    /\ last_traces' = p.last_traces
    /\ plot_call' = p.plot_call
    /\ plot_log' = p.plot_log

\* Open Plot Window of the FileManagerWindow.
FmwOpenPlot ==
    /\ app = "FileManagerWindow" /\ WinIdle
    /\ \E w \in {FmwState}, p \in {PlotState} :
         \E out \in {FileManagerWindow_open_plot_window(w, p)} :
           /\ fmw' = [loaded_files |-> out.w.loaded_files,
                      selected_s_params |-> out.w.selected_s_params,
                      file_slots |-> out.w.file_slots]
           /\ PlotDone(out.p)
           /\ handler' = Handled("open_plot_window", -1, <<>>, out.w.status_label,
                                 out.w.messages, out.p.raised)
    /\ UNCHANGED <<app, files, mw, fsd, accVars>>

\* The user closes the PlotWindow of the FileManagerWindow.
PwClose ==
    /\ app = "FileManagerWindow" /\ WinIdle /\ pw.open
    /\ pw' = [pw EXCEPT !.open = FALSE]
    /\ handler' = Handled("close", -1, <<>>, <<>>, <<>>, "")
    /\ UNCHANGED <<app, files, fmw, mw, fsd, accVars, engineVars>>

\* A handler of the PlotWindow is done.
PwDone(p, op, edit, target) ==
    /\ PlotDone(p)
    /\ handler' = [Handled(op, -1, <<>>, p.status_bar, p.messages, p.raised)
                     EXCEPT !.edit = edit, !.target = target, !.saved = p.saved]
    /\ UNCHANGED <<app, files, fmw, mw, fsd, accVars>>

\* The user gives a control of the PlotWindow another value (the spin boxes
\* are enabled while Auto is not checked).
PwEdit(field, value) ==
    /\ app \in {"FileManagerWindow", "FileSelectorDialog"} /\ WinIdle /\ pw.open
    /\ pw.controls[field] # value
    /\ field \in {"xmin", "xmax"} => ~pw.controls.xlim_auto
    /\ field \in {"ymin", "ymax"} => ~pw.controls.ylim_auto
    /\ \E p \in {PlotState} :
         \E out \in {PlotControlsWidget_edit(p, field, value)} :
           PwDone(out, "edit", field, "")

\* File > Export PNG / PDF / SVG of the PlotWindow; the save dialog returns
\* filepath.
PwExport(format, filepath) ==
    /\ app \in {"FileManagerWindow", "FileSelectorDialog"} /\ WinIdle /\ pw.open
    /\ \E p \in {PlotState} :
         \E out \in {PlotWindow_export(p, format, filepath, Writable(filepath))} :
           PwDone(out, "export", format, filepath)

\* The dialog as a handler finds it.
FsdState ==
    [files_table |-> fsd.files_table, loaded_files |-> fsd.loaded_files,
     file_counter |-> fsd.file_counter, traces |-> fsd.traces,
     messages |-> <<>>, p |-> PlotState]

\* The dialog as a handler leaves it; row is the row the handler was for.
FsdDone(d, op, row, paths, edit) ==
    /\ fsd' = [files_table |-> d.files_table, loaded_files |-> d.loaded_files,
               file_counter |-> d.file_counter, traces |-> d.traces]
    /\ PlotDone(d.p)
    /\ handler' = [Handled(op, row, paths, d.p.status_bar, d.messages, d.p.raised)
                     EXCEPT !.edit = edit]
    /\ UNCHANGED <<app, files, fmw, mw, accVars>>

\* Add File...; the file dialog returns filepath.
FsdAddFile(filepath) ==
    /\ app = "FileSelectorDialog" /\ WinIdle
    /\ fsd.file_counter < MaxFiles
    /\ \E d \in {FsdState} :
         \E out \in {FileSelectorDialog_add_file(d, filepath)} :
           FsdDone(out, "add_file", -1, <<filepath>>, "")

\* Add Multiple Files...; the file dialog returns filepaths.
FsdAddMultiple(filepaths) ==
    /\ app = "FileSelectorDialog" /\ WinIdle
    /\ fsd.file_counter + Len(filepaths) <= MaxFiles
    /\ \E d \in {FsdState} :
         \E out \in {FileSelectorDialog_add_multiple_files(d, filepaths,
                                                           Len(filepaths))} :
           FsdDone(out, "add_multiple_files", -1, filepaths, "")

\* The check box of the table row at index row.
FsdToggle(row) ==
    /\ app = "FileSelectorDialog" /\ WinIdle
    /\ row < Len(fsd.files_table)
    /\ \E d \in {FsdState} :
         \E out \in {FileSelectorDialog_on_enabled_changed(d, row)} :
           FsdDone(out, "on_enabled_changed", row, <<>>, "")

\* The legend cell of the table row at index row gets another text.
FsdEditLegend(row, text) ==
    /\ app = "FileSelectorDialog" /\ WinIdle
    /\ row < Len(fsd.files_table)
    /\ fsd.files_table[row + 1].legend # text
    /\ \E d \in {FsdState} :
         \E out \in {edit_legend(d, row, text)} :
           FsdDone(out, "edit_legend", row, <<>>, "")

\* The Remove button of the table row at index row is clicked: its lambda
\* calls remove_row with the number it keeps.
FsdRemove(row) ==
    /\ app = "FileSelectorDialog" /\ WinIdle
    /\ row < Len(fsd.files_table)
    /\ \E d \in {FsdState} :
         \E out \in {FileSelectorDialog_remove_row(d, d.files_table[row + 1].remove_row)} :
           FsdDone(out, "remove_row", row, <<>>, "")

\* Clear All; the question box returns reply.
FsdClearAll(reply) ==
    /\ app = "FileSelectorDialog" /\ WinIdle
    /\ \E d \in {FsdState} :
         \E out \in {FileSelectorDialog_clear_all_files(d, reply)} :
           FsdDone(out, "clear_all_files", -1, <<>>, "")

\* The legend field of a widget of MainWindow gets another text (the field
\* is enabled).
MwEditLegend(slot_id, text) ==
    /\ app = "MainWindow" /\ WinIdle
    /\ mw.file_slots[slot_id].enabled
    /\ mw.file_slots[slot_id].legend_edit.enabled
    /\ mw.file_slots[slot_id].legend_edit.text # text
    /\ \E m \in {MwState} :
         \E out \in {FileSlotWidget_edit_legend(m, slot_id, text)} :
           MwDone(out, "on_legend_changed", slot_id, <<>>)

\* Save as PNG / PDF / SVG of the controls of MainWindow; the save dialog
\* returns filepath.
MwSave(format, filepath) ==
    /\ app = "MainWindow" /\ WinIdle
    /\ \E m \in {MwState} :
         \E out \in {PlotControlsWidget_save(m, format, filepath)} :
           /\ mw' = [file_manager |-> out.file_manager,
                     file_slots |-> out.file_slots, traces |-> out.traces]
           /\ handler' = [Handled("save", -1, <<>>, out.status_bar, out.messages,
                                  out.raised)
                            EXCEPT !.edit = format, !.target = filepath]
    /\ UNCHANGED <<app, files, fmw, accVars, engineVars, plotVars>>

PlotNext ==
    \/ \E slot_id \in ActedSlots, filepath \in ManagerPlotPaths :
         FmwLoad(slot_id, filepath)
    \/ \E slot_id \in ActedSlots : FmwChoose(slot_id, "select_all", TRUE)
    \/ \E slot_id \in ActedSlots : FmwRemove(slot_id)
    \/ FmwOpenPlot
    \/ PwClose
    \/ \E edit \in ControlEdits : PwEdit(edit[1], edit[2])
    \/ \E format \in {"PNG", "PDF", "SVG"}, filepath \in SaveTargets :
         PwExport(format, filepath)
    \/ \E filepath \in SelectorPaths \cup {EmptyPath} : FsdAddFile(filepath)
    \/ \E filepaths \in SelectorLists : FsdAddMultiple(filepaths)
    \/ \E row \in 0..(MaxFiles - 1) : FsdToggle(row)
    \/ \E row \in 0..(MaxFiles - 1) : FsdEditLegend(row, <<>>)
    \/ \E row \in 0..(MaxFiles - 1) : FsdRemove(row)
    \/ \E reply \in {"Yes", "No"} : FsdClearAll(reply)
    \/ \E filepaths \in OpenLists : MwOpenFiles(filepaths)
    \/ \E slot_id \in ActedSlots : MwToggle(slot_id)
    \/ \E slot_id \in ActedSlots, text \in {<<>>, <<"a">>} : MwEditLegend(slot_id, text)
    \/ \E format \in {"png", "pdf", "svg"}, filepath \in SaveTargets :
         MwSave(format, filepath)
    \/ WinReturn

SpecPlotWindows == PlotInit /\ [][PlotNext]_vars

(***************************************************************************)
(* Claims about the accessor (checked under SpecAccessor).                 *)
(***************************************************************************)
Loaded == tfile # NoFile
Ports == tfile.network.nports
Points == Len(tfile.network.s)

\* samples[:, i-1, j-1] of the loaded network, i and j 1-based port numbers.
SamplesOf(i, j) == [k \in 1..Points |-> tfile.network.s[k][i][j]]

\* The pairs (i, j) of ports whose generated identifier is the requested name.
PairsNamed(param) ==
    {ij \in (1..Ports) \X (1..Ports) : ParamId(ij[1], ij[2]) = param}

\* C1: the parameter list built at load time is S{i}{j} with i the outer and j
\* the inner loop (S11, S12, ..., S1P, S21, ...); for two ports it is exactly
\* [S11, S12, S21, S22].
C1_ParamListOrder ==
    Loaded =>
      /\ Len(tfile.s_params) = Ports * Ports
      /\ \A i \in 1..Ports, j \in 1..Ports :
           tfile.s_params[(i - 1) * Ports + j] = <<"S">> \o Str(i) \o Str(j)
      /\ Ports = 2 =>
           tfile.s_params = << <<"S", "1", "1">>, <<"S", "1", "2">>,
                               <<"S", "2", "1">>, <<"S", "2", "2">> >>

C1_Witness ==
    /\ call.op = "TouchstoneFile" /\ ret.ok
    /\ Ports = 2
    /\ tfile.s_params[2] = <<"S", "1", "2">>

\* C2: with at most 9 ports, get_s_parameter('S<i><j>') returns the network's
\* frequency vector as loaded and the column samples[:, i-1, j-1]: the first
\* digit is the row (output port), the second the column (input port).
C2_GetSParameter ==
    (Loaded /\ call.op = "get_s_parameter" /\ Ports <= 9) =>
      \A i \in 1..Ports, j \in 1..Ports :
        call.param = <<"S", Digits[i + 1], Digits[j + 1]>> =>
          /\ ret.ok
          /\ ret.freq = Network(call.path).f
          /\ ret.data = SamplesOf(i, j)

C2_Witness ==
    /\ call.op = "get_s_parameter" /\ call.param = <<"S", "2", "1">>
    /\ Ports = 2 /\ Points = 2
    /\ ret.ok /\ ret.data = <<tfile.network.s[1][2][1], tfile.network.s[2][2][1]>>

\* C3 as stated: for every port count, 10 and more included, the list holds
\* P*P pairwise different identifiers and get_s_parameter on the identifier
\* generated for (i, j) returns samples[:, i-1, j-1].
C3_AnyPortCount ==
    Loaded =>
      /\ Cardinality({tfile.s_params[n] : n \in 1..Len(tfile.s_params)})
           = Ports * Ports
      /\ call.op = "get_s_parameter" =>
           \A ij \in PairsNamed(call.param) :
             ret.ok /\ ret.data = SamplesOf(ij[1], ij[2])

\* C3 amended: the same for port counts 1 to 9.
C3_UpToNinePorts ==
    (Loaded /\ Ports <= 9) =>
      /\ Cardinality({tfile.s_params[n] : n \in 1..Len(tfile.s_params)})
           = Ports * Ports
      /\ call.op = "get_s_parameter" =>
           \A ij \in PairsNamed(call.param) :
             ret.ok /\ ret.data = SamplesOf(ij[1], ij[2])

C3_Witness ==
    /\ call.op = "get_s_parameter" /\ call.param = ParamId(9, 8)
    /\ Ports = 9 /\ Points = 1
    /\ ret.ok /\ ret.data = <<tfile.network.s[1][9][8]>>

\* C4: a name that is not the identifier of a pair of ports of the network
\* (S33 on a 2-port network) makes get_s_parameter and every calculator fail
\* without data, and leaves the network, the frequency vector and the
\* parameter list as they were loaded.
C4_UnknownParameterFails ==
    (Loaded /\ call.op \in Calculators /\ PairsNamed(call.param) = {}) =>
      /\ ~ret.ok
      /\ ret.freq = <<>> /\ ret.data = <<>> /\ ret.data2 = <<>>
      /\ tfile.network = Network(call.path)
      /\ tfile.frequency = Network(call.path).f
      /\ tfile.s_params = build_s_params(Ports)

C4_Witness ==
    /\ call.op = "get_vswr" /\ call.param = <<"S", "3", "3">>
    /\ Ports = 2 /\ Points = 2
    /\ ~ret.ok /\ ret.err = "ValueError"

\* C5: on a network with no frequency point every calculator fails on a
\* valid parameter, and with at least one point none does.
C5_EmptySeriesFails ==
    (Loaded /\ call.op \in Calculators /\ PairsNamed(call.param) # {}) =>
      (ret.ok <=> Points >= 1)

\* C20: get_group_delay on a series of exactly one sample returns, with the
\* file's frequency vector, the one-element series [0] and raises nothing,
\* for every parameter of the file and so for every sample value.
C20_SingleSampleGroupDelay ==
    (Loaded /\ call.op = "get_group_delay" /\ Points = 1
       /\ InList(call.param, tfile.s_params)) =>
      (ret.ok /\ ret.data = <<0>> /\ ret.freq = tfile.frequency)

\* get_group_delay('S21') has returned [0] for a 2-port file of one point
\* whose S21 sample is not zero.
C20_Witness ==
    /\ Loaded /\ call.op = "get_group_delay" /\ call.param = ParamId(2, 1)
    /\ Ports = 2 /\ Points = 1
    /\ SamplesOf(2, 1)[1] # <<0, 0>>
    /\ ret.ok /\ ret.data = <<0>> /\ Len(ret.freq) = 1

(***************************************************************************)
(* Claims about the windows (checked under SpecWindows).                   *)
(***************************************************************************)
\* A path a load was attempted on and the parser does not accept.
FailedPath(filepath) == filepath # EmptyPath /\ ~ParserAccepts(filepath)

LoadWarning == <<"warning", "Error", "Failed to load file">>

\* The paths of filepaths[:4] that fail, by position (1-based).
FailedPositions(filepaths) ==
    {n \in 1..Len(filepaths) : n <= SlotCount /\ FailedPath(filepaths[n])}

IsBlank(text) == \A n \in 1..Len(text) : text[n] = " "

\* The rows of a dialog table that are checked, in table order.
CheckedRows(table) == LET Checked(row) == row.checked IN SelectSeq(table, Checked)

\* C14: when the S-parameter dialog is accepted, the stored selections are
\* one (parameter, label) pair per checked row, in row order; no label is
\* blank; a row whose legend cell is blank gets its parameter identifier as
\* label, and so does a row whose cell still shows the identifier.
C14_SelectionLabelNeverBlank ==
    [][(app = "FileManagerWindow" /\ handler'.op = "choose_s_params"
          /\ handler'.status # <<>>)
         => \A rows \in {CheckedRows(DialogEdit(
                             populate_table(fmw.loaded_files[handler'.slot],
                                            DictGet(fmw.selected_s_params,
                                                    handler'.slot, <<>>)),
                             handler'.edit))} :
              \A selections \in {DictGet(fmw'.selected_s_params, handler'.slot, <<>>)} :
                /\ Len(selections) = Len(rows)
                /\ \A n \in 1..Len(rows) :
                     /\ selections[n][1] = rows[n].param
                     /\ ~IsBlank(selections[n][2])
                     /\ IsBlank(rows[n].legend) => selections[n][2] = rows[n].param
                     /\ rows[n].legend = rows[n].param
                          => selections[n][2] = rows[n].param]_vars

\* The dialog of a 2-port file was accepted with the legend of its first row
\* blanked: four pairs are stored, the first with the label S11.
C14_Witness ==
    /\ app = "FileManagerWindow" /\ handler.op = "choose_s_params"
    /\ handler.edit = "blank" /\ handler.status # <<>>
    /\ Len(DictGet(fmw.selected_s_params, handler.slot, <<>>)) = 4
    /\ DictGet(fmw.selected_s_params, handler.slot, <<>>)[1]
         = <<ParamId(1, 1), ParamId(1, 1)>>

\* C13: the k-th trace (0-based) of the active trace list rebuilt by
\* MainWindow.update_plot has the colour palette[k mod 10], so that a trace
\* moves up the palette when an earlier one is disabled or removed.
C13_ColourByActivePosition ==
    app = "MainWindow" =>
      \A k \in 1..Len(mw.traces) :
        mw.traces[k].color = colors[((k - 1) % Len(colors)) + 1]

(***************************************************************************)
(* Claims about the plot engine (checked under SpecEngine).                *)
(***************************************************************************)
Plotted == plot_call # ""
KnownKinds == {PLOT_TYPES[n] : n \in 1..Len(PLOT_TYPES)}

\* C7: plot() with an empty trace list, whatever the plot type and the
\* configuration, does not raise, calls no calculator, and leaves the
\* placeholder 'No data to plot' on freshly created axes, drawn.
C7_EmptyListPlaceholder ==
    (Plotted /\ last_traces = <<>>) =>
      /\ plot_log.raised = ""
      /\ plot_log.calls = <<>>
      /\ plot_log.drawn
      /\ Len(ax.artists) = 1
      /\ ax.artists[1].style = "text"
      /\ ax.artists[1].text = "No data to plot"

C7_Witness ==
    /\ plot_call = "Polar" /\ last_traces = <<>>
    /\ plot_config.grid = FALSE
    /\ ax.artists[1].text = "No data to plot"

\* The calculator the claims name for each plot kind.
KindCalculator(kind) ==
    CASE kind = "Magnitude (dB)"     -> "get_magnitude_db"
      [] kind = "Magnitude (Linear)" -> "get_magnitude_linear"
      [] kind = "Phase (Degrees)"    -> "get_phase_deg"
      [] kind = "Phase (Radians)"    -> "get_phase_rad"
      [] kind = "VSWR"               -> "get_vswr"
      [] kind = "Group Delay"        -> "get_group_delay"
      [] kind = "Smith Chart"        -> "get_complex_data"
      [] kind = "Real vs Imaginary"  -> "get_real_imag"

\* Whether the calculator of the plot kind fails on a trace.
CalculatorFails(kind, trace) ==
    ~Invoke(KindCalculator(kind), trace.touchstone_file, trace.param_name).ok

\* The legend names of the first n traces whose calculator does not fail, in
\* list order.
RECURSIVE SurvivorNames(_, _, _)
SurvivorNames(kind, traces, n) ==
    IF n = 0 THEN <<>>
    ELSE IF CalculatorFails(kind, traces[n])
    THEN SurvivorNames(kind, traces, n - 1)
    ELSE Append(SurvivorNames(kind, traces, n - 1), traces[n].legend_name)

\* The lines drawn for traces: those carrying a legend name (the Smith
\* chart's markers do not), the real part alone for Real vs Imaginary.
IsTraceLine(a) == a.style = "-" /\ a.label[1] # <<>>
TraceLineNames ==
    LET lines == SelectSeq(ax.artists, IsTraceLine)
    IN  [n \in 1..Len(lines) |-> lines[n].label[1]]

\* C8: for every plot kind and every non-empty trace list plot() completes
\* without raising; a trace whose calculator fails is skipped and reported,
\* every other trace is drawn, also when all traces fail.
C8_FailedTraceSkipped ==
    (Plotted /\ plot_call \in KnownKinds /\ last_traces # <<>>) =>
      /\ plot_log.raised = ""
      /\ plot_log.drawn
      /\ TraceLineNames = SurvivorNames(plot_call, last_traces, Len(last_traces))
      /\ \A n \in 1..Len(last_traces) :
           CalculatorFails(plot_call, last_traces[n]) =>
             InList(last_traces[n].legend_name, plot_log.printed)

\* C9: for each trace the calculator of the current plot kind is called, and
\* no other; every item of the plot-type selector is one of the eight kinds
\* and none falls through to the branch that skips the trace.
C9_DispatchTable ==
    /\ \A n \in 1..Len(PlotTypeItems) :
         /\ PlotTypeItems[n] \in KnownKinds
         /\ PlotTypeItems[n] \notin {"Smith Chart", "Real vs Imaginary"} =>
              StandardCalculator(PlotTypeItems[n]) = KindCalculator(PlotTypeItems[n])
    /\ (Plotted /\ plot_call \in KnownKinds /\ last_traces # <<>>) =>
         /\ Len(plot_log.calls) = Len(last_traces)
         /\ \A n \in 1..Len(last_traces) :
              plot_log.calls[n] =
                [method   |-> KindCalculator(plot_call),
                 filepath |-> last_traces[n].touchstone_file.filepath,
                 param    |-> last_traces[n].param_name]

C9_Witness ==
    /\ plot_call = "VSWR" /\ Len(last_traces) = 2
    /\ Len(plot_log.calls) = 2
    /\ plot_log.calls[1].method = "get_vswr"
    /\ plot_log.calls[2].method = "get_vswr"
    /\ plot_log.raised = ""

Carries(axes, config) ==
    /\ axes.title = config.title
    /\ axes.xlabel = config.xlabel
    /\ axes.ylabel = config.ylabel
    /\ axes.grid = config.grid
    /\ axes.legend = config.legend_loc
    /\ ~config.xlim_auto => axes.xlim = <<config.xlim[1].v, config.xlim[2].v>>
    /\ ~config.ylim_auto => axes.ylim = <<config.ylim[1].v, config.ylim[2].v>>

\* C16: a plot() call of any of the eight kinds with a non-empty trace list
\* that completes leaves axes that carry the current plot configuration.
C16_ConfigurationApplied ==
    [][(<<plot_call, plot_log, last_traces>>' # <<plot_call, plot_log, last_traces>>
          /\ last_traces' # <<>> /\ plot_call' \in KnownKinds /\ plot_log'.drawn)
         => Carries(ax', plot_config')]_vars

(***************************************************************************)
(* Claims about the plot windows (checked under SpecPlotWindows).          *)
(***************************************************************************)
\* Which rows a table holds, in order: the file and the parameter of each.
RowIds(table) == [n \in 1..Len(table) |-> <<table[n].file_id, table[n].param>>]

\* C11: in the file-selector dialog, after any additions and removals, the
\* Remove button created for a row removes exactly that row: the table
\* afterwards holds the rows it held before without the row of the clicked
\* button, in their previous order.
C11_RemoveButtonRemovesItsRow ==
    [][(app = "FileSelectorDialog" /\ handler'.op = "remove_row")
         => RowIds(fsd'.files_table)
              = RowIds(removeRow(fsd.files_table, handler'.slot))]_vars

\* The selections of the loaded slots, in the order of selected_s_params: the
\* slot, the parameter and the label of each; the first n slots.
RECURSIVE FlatSelections(_, _)
FlatSelections(w, n) ==
    IF n = 0 THEN <<>>
    ELSE FlatSelections(w, n - 1)
           \o (IF KeyIn(w.loaded_files, w.selected_s_params[n][1])
               THEN [k \in 1..Len(w.selected_s_params[n][2]) |->
                       <<w.selected_s_params[n][1], w.selected_s_params[n][2][k][1],
                         w.selected_s_params[n][2][k][2]>>]
               ELSE <<>>)

\* C12: whenever FileManagerWindow.open_plot_window rebuilds the trace list,
\* the list holds one trace per selection of every loaded slot, in order,
\* and its k-th trace (0-based) has colour k mod 10 of the palette, counted
\* across all slots.
C12_PaletteAcrossSlots ==
    [][(app = "FileManagerWindow" /\ handler'.op = "open_plot_window"
          /\ handler'.status # <<>>)
         => \A flat \in {FlatSelections(fmw, Len(fmw.selected_s_params))} :
              /\ Len(last_traces') = Len(flat)
              /\ \A n \in 1..Len(flat) :
                   /\ last_traces'[n].param_name = flat[n][2]
                   /\ last_traces'[n].legend_name = flat[n][3]
                   /\ last_traces'[n].touchstone_file = fmw.loaded_files[flat[n][1]]
                   /\ last_traces'[n].color = colors[((n - 1) % 10) + 1]]_vars

\* More than ten traces have been plotted: the eleventh has the first colour
\* again and belongs to the second slot.
C12_Witness ==
    /\ app = "FileManagerWindow" /\ handler.op = "open_plot_window"
    /\ handler.status = <<"Plot window updated with", 18, "traces">>
    /\ Len(last_traces) = 18
    /\ last_traces[10].color = colors[10] /\ last_traces[11].color = colors[1]
    /\ last_traces[10].param_name = ParamId(1, 1)
    /\ last_traces[11].param_name = ParamId(1, 2)
    /\ pw.open

\* C15: an enabled trace whose legend field is blank is still in the active
\* trace list, labelled with its parameter identifier.  In the main window:
\* every enabled widget with a file and a parameter has a trace in
\* self.traces after update_plot, labelled with the parameter if the legend
\* field is empty.  In the file-selector dialog: every checked row has a
\* trace in self.traces after update_plot, in row order, labelled with the
\* parameter if the legend cell is empty.
C15_BlankLegendLabelledByParameter ==
    [][/\ (app = "MainWindow" /\ handler'.op = "on_enabled_changed"
            /\ handler'.raised = "")
           => \A slot_id \in SlotIds :
                \A slot \in {mw'.file_slots[slot_id]} :
                  (slot.enabled_checkbox /\ slot.touchstone_file # NoFile
                     /\ slot.param_combo.currentText # <<>>)
                    => \E n \in 1..Len(mw'.traces) :
                         /\ mw'.traces[n].slot_id = slot_id
                         /\ mw'.traces[n].param_name = slot.param_combo.currentText
                         /\ slot.legend_edit.text = <<>>
                              => mw'.traces[n].legend_name = slot.param_combo.currentText
       /\ (app = "FileSelectorDialog" /\ handler'.op = "on_enabled_changed"
            /\ handler'.raised = "")
           => \A rows \in {SelectSeq(fsd'.files_table, LAMBDA item : item.checked)} :
                /\ Len(fsd'.traces) = Len(rows)
                /\ \A n \in 1..Len(rows) :
                     /\ fsd'.traces[n].param_name = rows[n].param
                     /\ rows[n].legend = <<>>
                          => fsd'.traces[n].legend_name = rows[n].param]_vars

\* The nine keys of the plot configuration.
ConfigKeys == {"title", "xlabel", "ylabel", "grid", "legend_loc", "xlim",
               "ylim", "xlim_auto", "ylim_auto"}

\* An axis of a configuration is automatic with limits [None, None] or
\* explicit with both bounds set.
AxisWellFormed(auto, lim) ==
    /\ auto \in BOOLEAN
    /\ Len(lim) = 2
    /\ auto <=> lim = <<None, None>>
    /\ ~auto => lim[1].set /\ lim[2].set

\* C17: the plot configuration of a PlotWindow, at first and after any
\* edits of its controls, holds the nine keys; each axis is automatic with
\* limits [None, None] or explicit with both bounds set; and it equals the
\* record the controls emit: what the controls show, with the values of the
\* spin boxes as the limits of an explicit axis.
C17_ConfigurationWellFormed ==
    (app \in {"FileManagerWindow", "FileSelectorDialog"} /\ pw.open) =>
      /\ DOMAIN plot_config = ConfigKeys
      /\ AxisWellFormed(plot_config.xlim_auto, plot_config.xlim)
      /\ AxisWellFormed(plot_config.ylim_auto, plot_config.ylim)
      /\ \A key \in ConfigKeys \ {"xlim", "ylim"} : plot_config[key] = pw.controls[key]
      /\ ~pw.controls.xlim_auto
           => plot_config.xlim = <<Num(pw.controls.xmin), Num(pw.controls.xmax)>>
      /\ ~pw.controls.ylim_auto
           => plot_config.ylim = <<Num(pw.controls.ymin), Num(pw.controls.ymax)>>

\* Auto of the x axis has been unticked and the minimum set to 1, then Auto
\* has been ticked again: the limits are [None, None] though the spin
\* boxes hold 1 and 0.
C17_Witness ==
    /\ app = "FileSelectorDialog" /\ pw.open
    /\ handler.op = "edit" /\ handler.edit = "xlim_auto"
    /\ pw.controls.xlim_auto /\ pw.controls.xmin = 1
    /\ plot_config.xlim_auto /\ plot_config.xlim = <<None, None>>
    /\ last_traces # <<>>

\* C18: every export (PNG, PDF or SVG; File menu of the plot window or Save
\* button of the plot controls) whose save dialog returned a file calls
\* save_plot once, for that file with dpi = 300; a cancelled dialog calls
\* no save.
C18_ExportCallsSavePlot ==
    [][handler'.op \in {"export", "save"}
         => handler'.saved = IF handler'.target # ""
                             THEN <<[filepath |-> handler'.target, dpi |-> 300]>>
                             ELSE <<>>]_vars

\* The axes show the placeholder text and nothing else.
ShowsNoData(axes) ==
    /\ Len(axes.artists) = 1
    /\ axes.artists[1].style = "text"
    /\ axes.artists[1].text = "No data to plot"

\* C19: in the file-manager workflow, a plot request made while no
\* S-parameter of a loaded slot is selected leaves a shown plot window in the
\* placeholder state, also when it showed a plot with traces before.
C19_EmptyRequestShowsPlaceholder ==
    [][(app = "FileManagerWindow" /\ handler'.op = "open_plot_window"
          /\ FlatSelections(fmw, Len(fmw.selected_s_params)) = <<>>
          /\ pw'.open)
         => last_traces' = <<>> /\ ShowsNoData(ax')]_vars

(***************************************************************************)
(* Claims about the calculators on measured series (checked under          *)
(* SpecNumeric).                                                           *)
(***************************************************************************)
\* The series of the parameter S<i><j> that is being asked for.
CalledSeries == SamplesOf(int(call.param[2]), int(call.param[3]))

\* |v|^2 in units of 1/Scale^2.
AbsSquared(v) == v[1] * v[1] + v[2] * v[2]

\* C21: the VSWR of a sample is a quotient with a positive denominator (no
\* division by zero), is at least 1, is 1 at |v| = 0, is the saturated
\* value 19999 for every |v| >= 0.9999, and is non-decreasing in |v|; it
\* is computed for a transmission parameter as for a reflection parameter.
C21_VswrMonotoneAndSaturating ==
    (call.op = "get_vswr") =>
      /\ ret.ok
      /\ Len(ret.data) = Points
      /\ \A k \in 1..Points :
           /\ ret.data[k][2] > 0
           /\ ret.data[k][1] >= ret.data[k][2]
           /\ AbsSquared(CalledSeries[k]) = 0 => ret.data[k][1] = ret.data[k][2]
           /\ AbsSquared(CalledSeries[k]) >= (Scale - 1) * (Scale - 1)
                => ret.data[k] = <<2 * Scale - 1, 1>>
           /\ \A l \in 1..Points :
                AbsSquared(CalledSeries[k]) <= AbsSquared(CalledSeries[l])
                  => ret.data[k][1] * ret.data[l][2] <= ret.data[l][1] * ret.data[k][2]

\* get_vswr('S21') on the series 0, 0.99998 (between 0.9999 and 1), 1.1314:
\* the results are 1, 19999 and 19999.
C21_Witness ==
    /\ call.op = "get_vswr" /\ call.param = ParamId(2, 1) /\ Points = 3
    /\ CalledSeries = <<<<0, 0>>, <<-7071, 7071>>, <<8000, -8000>>>>
    /\ ret.ok
    /\ ret.data = <<<<Scale, Scale>>, <<2 * Scale - 1, 1>>, <<2 * Scale - 1, 1>>>>

\* The phase of the series that is asked for, as np.angle gives it, in units
\* of pi/4, and the spacing of the frequencies in Hz.
CalledAngles == [k \in 1..Points |-> Angle8(CalledSeries[k])]
Spacing == tfile.frequency[2] - tfile.frequency[1]

\* The delay -k/(2 pi) of the phase k f that advances by d units of pi/4 per
\* frequency step: -(d pi/4 / Spacing) / (2 pi) seconds.
DelayOf(d) == Quotient(-d, 8 * Spacing)

\* C22: for evenly spaced frequencies, get_group_delay of samples whose
\* unwrapped phase is linear in frequency returns the constant -k/(2 pi) at
\* every index, the two ends included.  The unwrapped phase is linear with
\* step d when np.unwrap gives such a phase, and it is when the phases of
\* the samples are those of a linear phase with a step of less than pi,
\* wrapped into (-pi, pi], jumps of 2 pi between neighbours included.
C22_LinearPhaseConstantDelay ==
    (call.op = "get_group_delay" /\ Points >= 2) =>
      \A d \in -8..8 :
        /\ (\A k \in 1..Points :
              np_unwrap(CalledAngles)[k] = CalledAngles[1] + d * (k - 1))
             => ret.ok /\ ret.freq = tfile.frequency
                  /\ ret.data = [k \in 1..Points |-> DelayOf(d)]
        /\ (d \in -3..3
              /\ \A k \in 1..Points :
                   (CalledAngles[k] - CalledAngles[1] - d * (k - 1)) % 8 = 0)
             => ret.ok /\ ret.data = [k \in 1..Points |-> DelayOf(d)]

\* get_group_delay('S11') on samples at 135, -135 and -45 degrees (the
\* phase advances by 90 degrees per 100 MHz and wraps after the first
\* sample): -2.5 ns at the three indices.
C22_Witness ==
    /\ call.op = "get_group_delay" /\ call.param = ParamId(1, 1) /\ Points = 3
    /\ CalledSeries = <<<<-7071, 7071>>, <<-5000, -5000>>, <<8000, -8000>>>>
    /\ CalledAngles = <<3, -3, -1>>
    /\ ret.ok
    /\ ret.data = <<<<-1, 400000000>>, <<-1, 400000000>>, <<-1, 400000000>>>>

\* C23: for a valid parameter, get_magnitude_db returns at every index
\* 20*log10 of what get_magnitude_linear returns at that index where that is
\* not 0; where it is 0 get_magnitude_db does not fail and returns -inf.
C23_DbOfLinearMagnitude ==
    (call.op = "get_magnitude_db" /\ InList(call.param, tfile.s_params)) =>
      \A linear \in {get_magnitude_linear(tfile, call.param)} :
        /\ ret.ok /\ linear.ok
        /\ ret.freq = linear.freq
        /\ Len(ret.data) = Len(linear.data)
        /\ \A k \in 1..Len(linear.data) :
             /\ linear.data[k] = 0 <=> AbsSquared(CalledSeries[k]) = 0
             /\ ret.data[k] = IF linear.data[k] # 0
                               THEN <<"20*log10", linear.data[k]>>
                               ELSE <<"-inf", 0>>

\* get_magnitude_db('S11') on the series 0, 0.5: -inf and 20*log10(0.5).
C23_Witness ==
    /\ call.op = "get_magnitude_db" /\ call.param = ParamId(1, 1) /\ Points = 2
    /\ CalledSeries = <<<<0, 0>>, <<5000, 0>>>>
    /\ ret.ok
    /\ ret.data = <<<<"-inf", 0>>, <<"20*log10", 5000>>>>

(***************************************************************************)
(* Further claims about the accessor (checked under SpecAccessor).         *)
(***************************************************************************)
\* A call of a method on a parameter of the file's list leaves the file as
\* it was and returns series of the file's length: one series, and a second
\* one of the same length from get_real_imag alone.
PureAndLengthPreserving ==
    /\ tfile' = tfile
    /\ ret'.ok
    /\ Len(ret'.data) = Points
    /\ Len(ret'.data2) = IF call'.op = "get_real_imag" THEN Points ELSE 0

FileBefore(slot_id) == IF slot_id \in DOMAIN files THEN files[slot_id] ELSE NoFile
FileAfter(slot_id) == IF slot_id \in DOMAIN files' THEN files'[slot_id] ELSE NoFile
OtherSlotsKept(slot_id) ==
    \A other \in SlotIds \ {slot_id} : FileAfter(other) = FileBefore(other)

\* C25: load_file(s, path) that succeeds makes get_file(s) the network
\* loaded from path and changes no other slot (one that fails changes
\* none); remove_file(s) makes get_file(s) None, changes no other slot and
\* changes nothing when s is empty; clear_all leaves every slot empty; the
\* slots are slot ids, each holding one loaded network.
C25_SlotOwnership ==
    [][(app = "FileManager" /\ WinIdle)
         => /\ handler'.op = "load_file"
                 => \A loaded \in {load_file(handler'.paths[1])} :
                      /\ loaded.ok <=> handler'.raised = ""
                      /\ loaded.ok => /\ FileAfter(handler'.slot) = loaded.obj
                                      /\ OtherSlotsKept(handler'.slot)
                      /\ ~loaded.ok => files' = files
            /\ handler'.op = "remove_file"
                 => /\ FileAfter(handler'.slot) = NoFile
                    /\ OtherSlotsKept(handler'.slot)
                    /\ FileBefore(handler'.slot) = NoFile => files' = files
            /\ handler'.op = "clear_all"
                 => \A slot_id \in SlotIds : FileAfter(slot_id) = NoFile
            /\ DOMAIN files' \subseteq SlotIds
            /\ \A slot_id \in DOMAIN files' :
                 files'[slot_id] # NoFile /\ files'[slot_id].network.nports >= 1]_vars

\* Slots 0 and 1 held the one-port file; remove_file(0) has emptied slot 0
\* and slot 1 still holds its network.
C25_Witness ==
    /\ app = "FileManager" /\ handler.op = "remove_file" /\ handler.slot = 0
    /\ DOMAIN files = {1}
    /\ files[1] = load_file(GoodPath(1, 1)).obj

\* The selections of a slot of the FileManagerWindow, [] for a slot without
\* an entry, before and after a step.
SelectionsOf(slot_id) == DictGet(fmw.selected_s_params, slot_id, <<>>)
SelectionsAfter(slot_id) == DictGet(fmw'.selected_s_params, slot_id, <<>>)
SelectionsBelong(w) ==
    \A n \in 1..Len(w.selected_s_params) :
      \A slot_id \in {w.selected_s_params[n][1]} :
        \A selections \in {w.selected_s_params[n][2]} :
          selections # <<>>
            => /\ KeyIn(w.loaded_files, slot_id)
               /\ \A k \in 1..Len(selections) :
                    InList(selections[k][1], w.loaded_files[slot_id].s_params)

\* C26: in the FileManagerWindow every slot with selections has a loaded
\* file and every selected parameter is a parameter of that file, before
\* and after every load, choose, remove and clear-all; a load that puts a
\* file into a slot leaves the slot without selections.
C26_SelectionsBelongToLoadedFile ==
    [][app = "FileManagerWindow"
         => /\ SelectionsBelong(fmw) /\ SelectionsBelong(fmw')
            /\ (handler'.op = "load_file" /\ handler'.status # <<>>)
                 => SelectionsAfter(handler'.slot) = <<>>]_vars

\* Slot 0 held the two-port file; the one-port file has just been loaded
\* over it and the slot has no selections, while slot 1 holds the two-port
\* file with S11 and S21 selected.
C26_Witness ==
    /\ app = "FileManagerWindow" /\ handler.op = "load_file" /\ handler.slot = 0
    /\ handler.status # <<>>
    /\ KeyIn(fmw.loaded_files, 0) /\ fmw.loaded_files[0].network.nports = 1
    /\ DictHas(fmw.selected_s_params, 0) /\ SelectionsOf(0) = <<>>
    /\ KeyIn(fmw.loaded_files, 1) /\ fmw.loaded_files[1].network.nports = 2
    /\ Len(SelectionsOf(1)) = 4
    /\ SelectionsOf(1)[2][1] = ParamId(1, 2)

\* C28: in the FileManagerWindow the Choose S-Parameters and Remove File
\* buttons of each of the four slots are enabled exactly when the slot holds
\* a loaded file.
C28_ButtonsEnabledIffLoaded ==
    app = "FileManagerWindow"
      => \A slot_id \in SlotIds :
           /\ fmw.file_slots[slot_id].choose_button <=> KeyIn(fmw.loaded_files, slot_id)
           /\ fmw.file_slots[slot_id].remove_button <=> KeyIn(fmw.loaded_files, slot_id)

\* A rejected file has just been offered to slot 0, which still holds its
\* file with both buttons enabled; slot 1 is empty with both disabled.
C28_Witness ==
    /\ app = "FileManagerWindow" /\ handler.op = "load_file" /\ handler.slot = 0
    /\ handler.paths = <<GarbagePath>> /\ handler.messages # <<>>
    /\ KeyIn(fmw.loaded_files, 0)
    /\ fmw.file_slots[0].choose_button /\ fmw.file_slots[0].remove_button
    /\ ~KeyIn(fmw.loaded_files, 1)
    /\ ~fmw.file_slots[1].choose_button /\ ~fmw.file_slots[1].remove_button

\* C29: a selector dialog accepted without an edit leaves the slot's
\* selections (parameters, labels, order) as they were, and a cancelled
\* dialog leaves the window as it was whatever was edited in it.
C29_ChooseRoundTripAndCancel ==
    [][(app = "FileManagerWindow" /\ handler'.op = "choose_s_params")
         => /\ (handler'.edit = "none" /\ handler'.status # <<>>)
                 => /\ SelectionsAfter(handler'.slot) = SelectionsOf(handler'.slot)
                    /\ fmw'.loaded_files = fmw.loaded_files
                    /\ \A other \in SlotIds \ {handler'.slot} :
                         SelectionsAfter(other) = SelectionsOf(other)
            /\ handler'.status = <<>> => fmw' = fmw]_vars

\* The dialog of slot 0 has been accepted without an edit and the slot has
\* S11 under the label the user gave it before.
C29_Witness ==
    /\ app = "FileManagerWindow" /\ handler.op = "choose_s_params"
    /\ handler.slot = 0 /\ handler.edit = "none" /\ handler.status # <<>>
    /\ Len(SelectionsOf(0)) >= 1
    /\ SelectionsOf(0)[1] = <<ParamId(1, 1), <<"x">>>>

\* The widgets of the MainWindow that hold a touchstone_file.
WidgetsWithFile == {slot_id \in SlotIds : mw.file_slots[slot_id].touchstone_file # NoFile}

\* C30: in the MainWindow, between user actions, the slots of file_manager
\* are the widgets holding a touchstone_file, the active traces are at most
\* one per slot in increasing slot order (so at most four), and each trace
\* carries the file of its slot's widget and a parameter of that file.
C30_MainWindowConsistent ==
    (app = "MainWindow")
      => /\ DOMAIN mw.file_manager = WidgetsWithFile
         /\ \A slot_id \in WidgetsWithFile :
              mw.file_manager[slot_id] = mw.file_slots[slot_id].touchstone_file
         /\ Len(mw.traces) <= SlotCount
         /\ \A n \in 1..Len(mw.traces) :
              /\ mw.traces[n].slot_id \in WidgetsWithFile
              /\ n > 1 => mw.traces[n - 1].slot_id < mw.traces[n].slot_id
              /\ \A slot \in {mw.file_slots[mw.traces[n].slot_id]} :
                   /\ mw.traces[n].touchstone_file = slot.touchstone_file
                   /\ InList(mw.traces[n].param_name, slot.touchstone_file.s_params)

\* The two-port file has just been loaded over the file of widget 0; both
\* widgets and both slots of file_manager hold a file, and the two traces
\* are S11 of the two-port file in slot 0 and S11 of slot 1.
C30_Witness ==
    /\ app = "MainWindow" /\ handler.op = "browse_file" /\ handler.slot = 0
    /\ handler.paths = <<GoodPath(2, 1)>>
    /\ DOMAIN mw.file_manager = {0, 1}
    /\ mw.file_slots[0].touchstone_file.network.nports = 2
    /\ mw.file_manager[0].network.nports = 2
    /\ Len(mw.traces) = 2
    /\ mw.traces[1].slot_id = 0 /\ mw.traces[2].slot_id = 1
    /\ mw.traces[1].touchstone_file.network.nports = 2

(***************************************************************************)
(* A further claim about the plot windows (checked under SpecPlotWindows). *)
(***************************************************************************)
\* The chart axes with the calculator calls log is the one that
\* plot(config, plot_type, traces) draws.
ChartOf(axes, log, config, plot_type, traces) ==
    \A r \in {plot(config, plot_type, traces)} :
      /\ log.calls = r.calls
      /\ log.raised = r.raised
      /\ axes.projection = r.ax.projection
      /\ axes.title = r.ax.title
      /\ axes.grid = r.ax.grid
      /\ Len(axes.artists) = Len(r.ax.artists)
      /\ \A n \in 1..Len(r.ax.artists) :
           /\ axes.artists[n].style = r.ax.artists[n].style
           /\ axes.artists[n].label = r.ax.artists[n].label
           /\ axes.artists[n].color = r.ax.artists[n].color

\* C27: in a PlotWindow, a step that ends with a chart rendered leaves the
\* chart drawn from the engine's stored traces, the plot type the controls
\* show and the configuration the controls hold; the stored traces are the
\* ones the last update_plot was given: an edit of a control (plot type or
\* configuration) keeps them, an update_plot from the file selector or the
\* file manager window replaces them with its list, and they are empty
\* while update_plot was never called.
C27_LastRenderIsCurrent ==
    [][(app \in {"FileManagerWindow", "FileSelectorDialog"} /\ pw'.open
          /\ handler'.op # "" /\ plot_call' # "")
         => /\ plot_call' = pw'.controls.plot_type
            /\ \A key \in ConfigKeys \ {"xlim", "ylim"} :
                 plot_config'[key] = pw'.controls[key]
            /\ plot_config'.xlim = IF pw'.controls.xlim_auto THEN <<None, None>>
                                   ELSE <<Num(pw'.controls.xmin), Num(pw'.controls.xmax)>>
            /\ ChartOf(ax', plot_log', plot_config', pw'.controls.plot_type, last_traces')
            /\ handler'.op = "edit" => last_traces' = last_traces
            /\ app = "FileSelectorDialog" => last_traces' = fsd'.traces
            /\ (handler'.op = "open_plot_window" /\ handler'.status # <<>>)
                 => Len(last_traces')
                      = Len(FlatSelections(fmw, Len(fmw.selected_s_params)))]_vars

\* In the file selector one row is ticked and plotted; the plot type has
\* then been set to Smith Chart: the chart is a Smith chart of that trace.
C27_Witness ==
    /\ app = "FileSelectorDialog" /\ pw.open
    /\ handler.op = "edit" /\ handler.edit = "plot_type"
    /\ pw.controls.plot_type = "Smith Chart" /\ plot_call = "Smith Chart"
    /\ Len(last_traces) = 1 /\ fsd.traces = last_traces
    /\ plot_log.raised = ""
    /\ ax.projection = "polar"
====
